---- MODULE Spec2Model ----
(***************************************************************************)
(* Transcript segmentation and incremental summarization pipeline of the   *)
(* AI meeting notes summarizer.                                            *)
(*                                                                         *)
(*   Spec             AIService's request scheduler: queueRequest,         *)
(*                    processQueue, executeWithRetry                       *)
(*                    (src/src/services/aiService.js).                     *)
(*   SpecReset        the scheduler with reset() and cleanup() as well.    *)
(*   SpecLive         the scheduler when every thunk settles and every     *)
(*                    timer fires.                                         *)
(*   SpecLiveReset    SpecLive with reset() and cleanup() as well.         *)
(*   SpecTimers       the scheduler when every timer fires and a thunk     *)
(*                    need not settle.                                     *)
(*   SpecHook         the useSummary hook driven by the dashboard and by   *)
(*                    the transcription callbacks                          *)
(*                    (src/src/hooks/useSummary.js).                       *)
(*   SpecHookLive     the same hook over one summary interval, every      *)
(*                    request of the service settling.                     *)
(*   SpecParse        parseSummaryResponse over response texts.            *)
(*   SpecIncremental  generateIncrementalSummary over key point lists.     *)
(*   SpecChunk        createTranscriptChunks over segment streams.         *)
(*   SpecSpeech       SpeechService's transcript segments                  *)
(*                    (src/src/services/systemAudioTranscriber.js) and the *)
(*                    list that useTranscription shows.                    *)
(*   SpecSummary      the summaries handed to callers by AIService and by  *)
(*                    SummaryService (src/src/services/summaryService.js). *)
(*   SpecRender       the plain-text renderings of a summary               *)
(*                    (src/src/components).                                *)
(*   SpecTopics       mergeTopics over lists of topics.                    *)
(*   SpecQuotes       sanitizeQuotes over lists of quotes.                 *)
(*   SpecRecovery     SpeechService's recovery from the errors of the      *)
(*                    recognition, with the timers it sets.                *)
(*                                                                         *)
(* Time is the value of Date.now() in milliseconds.  An action is one      *)
(* synchronous run of JavaScript between two awaits.                       *)
(***************************************************************************)
EXTENDS Integers, Sequences, FiniteSets, TLC

VARIABLES
    now,             \* Date.now()
    requestQueue,    \* rateLimiter.requestQueue: ids of the queued requests
    requestHistory,  \* rateLimiter.requestHistory: recorded timestamps
    isProcessing,    \* rateLimiter.isProcessing
    modelReady,      \* isInitialized && model !== null
    loops,           \* the running processQueue() invocations and where each awaits
    promise,         \* the promise queueRequest returned for each request
    calls,           \* how many times each request's thunk has been invoked
    nextReq,         \* number of queueRequest calls so far
    dequeueLog,      \* Date.now() at every requestQueue.shift(), in order
    resets,          \* number of reset() and cleanup() calls so far
    permanentAt,     \* the attempt at which a request's thunk first threw a permanent error
    \* useSummary hook and the dashboard that drives it
    aiReady,             \* aiServiceRef.current !== null
    isGenerating,        \* useState isGenerating
    currentSummary,      \* useState currentSummary (NoSummary is null)
    hookError,           \* useState error !== null
    lastSegs,            \* lastTranscriptSegmentsRef.current: segment ids
    transcript,          \* useTranscription's transcriptSegments
    isRecordingSession,  \* dashboard's isRecordingSession
    cycles,              \* generation cycles awaiting aiService
    svcQueue,            \* the cycles' requests in aiService's queue, head executing
    nextSeg,             \* segments created so far
    nextSum,             \* summaries created so far
    nextCycle,           \* cycles started so far
    okInputs,            \* ids of the segments a succeeded cycle had as input
    \* functions of aiService taken one call at a time
    returned,            \* the function that has returned, "none" before the call
    responseText,        \* parseSummaryResponse's argument
    parseResult,         \* what parseSummaryResponse returned
    previousKeyPoints,   \* previousSummary.keyPoints
    answerKeyPoints,     \* keyPoints of the model's parsed answer
    updatedKeyPoints,    \* keyPoints of generateIncrementalSummary's result
    segments,            \* createTranscriptChunks' argument
    chunks,              \* what createTranscriptChunks returned
    \* SpeechService (Web Speech mode)
    isListening,           \* this.isListening
    isPaused,              \* this.isPaused
    currentTranscript,     \* this.currentTranscript
    transcriptSegments,    \* this.transcriptSegments
    sessionStartTime,      \* this.sessionStartTime (NoTime is null)
    lastSegmentTime,       \* this.lastSegmentTime (NoTime is null)
    segmentCompleteCalls,  \* the segments handed to onSegmentComplete this session
    finalizersInARow,      \* the calls that ran finalizeCurrentSegment since any other call
    displaySegments,       \* useTranscription's transcriptSegments state
    \* the summaries that the services hand to their callers
    chunkResponses,        \* the model's answers to the chunks of a transcript
    handed,                \* the summary handed to the caller
    sourceWords,           \* words of the text the handed content was made from
    \* SpeechService: recovery from the errors of the recognition
    retryCount,            \* this.retryCount
    retryTimers,           \* the retry timers of handleNetworkError: waiting, and in their pause
    restartTimers,         \* the restart timers of handleEnd, handleNoSpeechError, handleRecoveryError
    stopRequested,         \* stopListening() or cleanup() was the last call of the owner
    timerStarted,          \* a timer has called recognition.start() since that call
    \* the plain-text renderings of a summary
    exportSummary,         \* the summary that a component renders
    exportText,            \* the lines of the text rendered
    \* mergeTopics and sanitizeQuotes over texts
    inputTopics,           \* the topics handed to mergeTopics
    mergedTopics,          \* what mergeTopics returned, or that it threw
    inputQuotes,           \* the quotes handed to sanitizeQuotes
    sanitizedQuotes        \* what sanitizeQuotes returned

schedVars == <<requestQueue, requestHistory, isProcessing, modelReady, loops,
               promise, calls, nextReq, dequeueLog, resets, permanentAt>>

hookVars == <<aiReady, isGenerating, currentSummary, hookError, lastSegs, transcript,
              isRecordingSession, cycles, svcQueue, nextSeg, nextSum, nextCycle,
              okInputs>>

pureVars == <<returned, responseText, parseResult, previousKeyPoints, answerKeyPoints,
              updatedKeyPoints, segments, chunks>>

speechVars == <<isListening, isPaused, currentTranscript, transcriptSegments,
                sessionStartTime, lastSegmentTime, segmentCompleteCalls,
                finalizersInARow, displaySegments, retryCount, retryTimers,
                restartTimers, stopRequested, timerStarted>>

summaryVars == <<chunkResponses, handed, sourceWords>>

renderVars == <<exportSummary, exportText>>

textVars == <<inputTopics, mergedTopics, inputQuotes, sanitizedQuotes>>

nonSched == <<hookVars, pureVars, speechVars, summaryVars, renderVars, textVars>>
nonHook == <<schedVars, pureVars, speechVars, summaryVars, renderVars, textVars>>
nonSpeech == <<schedVars, hookVars, pureVars, summaryVars, renderVars, textVars>>

vars == <<now, schedVars, hookVars, pureVars, speechVars, summaryVars, renderVars, textVars>>

----------------------------------------------------------------------------
(* Bounds of the model *)

MaxRequests == 2        \* queueRequest calls explored
MaxResets == 1          \* reset() and cleanup() calls explored
MaxTime == 70000        \* the clock stops here
Quantum == 10000        \* one step of the clock
RequestsPerMinute == 1  \* rateLimiter.requestsPerMinute as configured in the model
MaxCycles == 2          \* generation cycles explored
MaxChunks == 2          \* chunks of one generateSummary call
MaxSegments == 3        \* recognition events explored
MaxWords == 1           \* words of one segment's text
MinSegments == 2        \* options.minSegments as passed in the model
MinWords == 2           \* options.minWords as passed in the model
MaxElems == 1           \* elements of an array of the model's answer
MaxLines == 1           \* non-blank lines of a response text
MaxTexts == 3           \* distinct key point texts
MaxKeyPoints == 2       \* key points of one list
MaxStream == 3          \* segments handed to createTranscriptChunks
MaxSegWords == 2        \* words of a segment handed to createTranscriptChunks
LongWord == 3           \* length of a long word, a short one has one letter
MaxChunkSize == 6       \* chunkConfig.maxChunkSize as configured in the model
OverlapWords == 2       \* chunkConfig.overlapWords as configured in the model
MaxSpeechSegments == 2  \* segments in a session before its last recognition event
MaxLiveTime == 20000    \* Date.now() up to which time passes with no timer pending
MaxFinals == 1          \* final results in one recognition event
MaxItems == 1           \* items in a list of a chunk summary
MaxChunkSummaries == 2  \* chunks of a transcript that are summarized
MaxFinalizers == 2      \* calls in a row that run finalizeCurrentSegment
MaxSpeechTime == 10000  \* Date.now() up to which a session is followed
MaxSummaryIds == 3      \* summaries made one from the other by incremental updates
MaxRenderItems == 1     \* items of a list, topics, and points of a topic of a rendered summary
MaxAttempts == 5        \* attempt indices for which the retry delay is computed
MaxDisplaySegments == 3 \* segments in useTranscription's list when an event arrives

(* Program constants *)

MaxRetries == 3
BaseDelay == 1000
MaxDelay == 10000
Window == 60000
IntervalSeconds == 30
SegmentDuration == 30
WordLimit == 200
FallbackKeyPoints == 10
FallbackDecisions == 5
FallbackActionItems == 5
FallbackQuotes == 3
KeyPointsCap == 10

ReqIds == 1..MaxRequests
LoopIds == 1..MaxRequests

Min(a, b) == IF a < b THEN a ELSE b
Max(a, b) == IF a > b THEN a ELSE b

RECURSIVE Pow2(_)
Pow2(n) == IF n = 0 THEN 1 ELSE 2 * Pow2(n - 1)

RECURSIVE SeqMin(_)
SeqMin(s) == IF Len(s) = 1 THEN s[1] ELSE Min(s[1], SeqMin(Tail(s)))

----------------------------------------------------------------------------
(* AIService: rate limiter *)

\* canMakeRequest(): requestHistory.filter(timestamp => timestamp > oneMinuteAgo)
CleanHistory(h, t) == SelectSeq(h, LAMBDA ts : ts > t - Window)

\* canMakeRequest(): requestHistory.length < requestsPerMinute, on the cleaned history
CanMakeRequest(h, t) == Len(CleanHistory(h, t)) < RequestsPerMinute

\* (mutant) the time elapsed since the oldest request, not the time left
GetWaitTime_Elapsed(h, t) ==
    IF Len(h) = 0 THEN 0 ELSE Max(0, t - SeqMin(h))

\* getWaitTime()
GetWaitTime(h, t) ==
    IF Len(h) = 0 THEN 0 ELSE Max(0, Window - (t - SeqMin(h)))

\* (mutant) a delay that grows by baseDelay with every attempt
RetryDelay_Linear(attempt) == Min(BaseDelay * (attempt + 1), MaxDelay)

\* executeWithRetry(): Math.min(baseDelay * Math.pow(2, attempt), maxDelay)
RetryDelay(attempt) == Min(BaseDelay * Pow2(attempt), MaxDelay)

\* (mutant) one retry too many: attempt === maxRetries + 1
RetriesExhausted_OffByOne(attempt) == attempt = MaxRetries + 1

\* executeWithRetry(): if (attempt === maxRetries) break
RetriesExhausted(attempt) == attempt = MaxRetries

NoLoop == [pc |-> "none", req |-> 0, attempt |-> 0, wakeAt |-> 0, lastError |-> 0]

NoPromise == [state |-> "none", val |-> 0]

ActiveLoops == {l \in LoopIds : loops[l].pc # "none"}

Executing == {l \in LoopIds : loops[l].pc \in {"executing", "backoff"}}

\* processQueue(): one turn of `while (requestQueue.length > 0)` for loop l, from
\* the values q, h, ip, lp, cl the caller has produced so far in this run.
LoopHead(l, q, h, ip, lp, cl) ==
    IF q = <<>>
    THEN /\ isProcessing' = FALSE
         /\ requestQueue' = q
         /\ requestHistory' = h
         /\ loops' = [lp EXCEPT ![l] = NoLoop]
         /\ calls' = cl
         /\ dequeueLog' = dequeueLog
    ELSE IF CanMakeRequest(h, now)
    THEN LET r == Head(q) IN
         /\ isProcessing' = ip
         /\ requestQueue' = Tail(q)
         /\ requestHistory' = CleanHistory(h, now)
         /\ loops' = [lp EXCEPT ![l] = [pc |-> "executing", req |-> r, attempt |-> 0,
                                        wakeAt |-> 0, lastError |-> 0]]
         /\ calls' = [cl EXCEPT ![r] = @ + 1]
         /\ dequeueLog' = Append(dequeueLog, now)
    ELSE /\ isProcessing' = ip
         /\ requestQueue' = q
         /\ requestHistory' = CleanHistory(h, now)
         /\ loops' = [lp EXCEPT ![l] =
                [pc |-> "sleeping", req |-> 0, attempt |-> 0,
                 wakeAt |-> now + GetWaitTime(CleanHistory(h, now), now),
                 lastError |-> 0]]
         /\ calls' = cl
         /\ dequeueLog' = dequeueLog

\* queueRequest(requestFn): push, then processQueue(), which returns at once when
\* isProcessing and otherwise runs its loop up to the first await.
QueueRequest ==
    /\ nextReq < MaxRequests
    /\ LET r == nextReq + 1
           q == Append(requestQueue, r)
       IN /\ nextReq' = r
          /\ promise' = [promise EXCEPT ![r] = [state |-> "pending", val |-> 0]]
          /\ IF isProcessing
             THEN /\ requestQueue' = q
                  /\ UNCHANGED <<requestHistory, isProcessing, loops, calls, dequeueLog>>
             ELSE \E l \in LoopIds :
                    /\ loops[l].pc = "none"
                    /\ \A k \in LoopIds : k < l => loops[k].pc # "none"
                    /\ LoopHead(l, q, requestHistory, TRUE, loops, calls)
    /\ UNCHANGED <<now, modelReady, resets, permanentAt>>
    /\ UNCHANGED nonSched

\* The thunk of the request loop l executes returns a value: recordRequest(),
\* request.resolve(result), and the loop goes on.
ThunkResolve(l) ==
    /\ loops[l].pc = "executing"
    /\ LET r == loops[l].req IN
       /\ promise' = [promise EXCEPT ![r] = [state |-> "resolved", val |-> calls[r]]]
       /\ LoopHead(l, requestQueue, Append(requestHistory, now), isProcessing, loops, calls)
    /\ UNCHANGED <<now, modelReady, nextReq, resets, permanentAt>>
    /\ UNCHANGED nonSched

\* The thunk throws an error, permanent (an invalid request) or transient:
\* executeWithRetry sleeps before the next attempt, or, the retries exhausted,
\* throws lastError and processQueue rejects the promise.
ThunkReject(l, permanent) ==
    /\ loops[l].pc = "executing"
    /\ permanentAt' = IF permanent /\ permanentAt[loops[l].req] = 0
                      THEN [permanentAt EXCEPT ![loops[l].req] = calls[loops[l].req]]
                      ELSE permanentAt
    /\ LET r == loops[l].req IN
       IF RetriesExhausted(loops[l].attempt)
       THEN /\ promise' = [promise EXCEPT ![r] = [state |-> "rejected", val |-> calls[r]]]
            /\ LoopHead(l, requestQueue, requestHistory, isProcessing, loops, calls)
       ELSE /\ loops' = [loops EXCEPT ![l] =
                   [@ EXCEPT !.pc = "backoff", !.lastError = calls[r],
                             !.wakeAt = now + RetryDelay(loops[l].attempt)]]
            /\ UNCHANGED <<promise, requestQueue, requestHistory, isProcessing, calls,
                           dequeueLog>>
    /\ UNCHANGED <<now, modelReady, nextReq, resets>>
    /\ UNCHANGED nonSched

\* executeWithRetry(): the backoff sleep is over, attempt++ and requestFn() again.
BackoffWake(l) ==
    /\ loops[l].pc = "backoff"
    /\ now >= loops[l].wakeAt
    /\ loops' = [loops EXCEPT ![l] = [@ EXCEPT !.pc = "executing", !.attempt = @ + 1]]
    /\ calls' = [calls EXCEPT ![loops[l].req] = @ + 1]
    /\ UNCHANGED <<now, requestQueue, requestHistory, isProcessing, modelReady, promise,
                   nextReq, dequeueLog, resets, permanentAt>>
    /\ UNCHANGED nonSched

\* processQueue(): the rate-limit sleep is over, `continue`.
SleepWake(l) ==
    /\ loops[l].pc = "sleeping"
    /\ now >= loops[l].wakeAt
    /\ LoopHead(l, requestQueue, requestHistory, isProcessing, loops, calls)
    /\ UNCHANGED <<now, modelReady, promise, nextReq, resets, permanentAt>>
    /\ UNCHANGED nonSched

\* reset()
Reset ==
    /\ resets < MaxResets
    /\ requestQueue' = <<>>
    /\ requestHistory' = <<>>
    /\ isProcessing' = FALSE
    /\ resets' = resets + 1
    /\ UNCHANGED <<now, modelReady, loops, promise, calls, nextReq, dequeueLog,
                   permanentAt>>
    /\ UNCHANGED nonSched

\* cleanup()
Cleanup ==
    /\ resets < MaxResets
    /\ requestQueue' = <<>>
    /\ requestHistory' = <<>>
    /\ isProcessing' = FALSE
    /\ modelReady' = FALSE
    /\ resets' = resets + 1
    /\ UNCHANGED <<now, loops, promise, calls, nextReq, dequeueLog, permanentAt>>
    /\ UNCHANGED nonSched

\* Time passes. A timer fires at or after its due time, never before.
Tick ==
    /\ now + Quantum <= MaxTime
    /\ now' = now + Quantum
    /\ UNCHANGED <<schedVars, hookVars, pureVars, speechVars, summaryVars, renderVars, textVars>>

\* Time passes as long as a timer of the scheduler is pending
TimerTick ==
    /\ \/ now + Quantum <= MaxLiveTime
       \/ \E l \in LoopIds : loops[l].pc \in {"backoff", "sleeping"} /\ loops[l].wakeAt > now
    /\ now' = now + Quantum
    /\ UNCHANGED <<schedVars, hookVars, pureVars, speechVars, summaryVars, renderVars, textVars>>

SchedInit ==
    /\ now = 0
    /\ requestQueue = <<>>
    /\ requestHistory = <<>>
    /\ isProcessing = FALSE
    /\ modelReady = TRUE
    /\ loops = [l \in LoopIds |-> NoLoop]
    /\ promise = [r \in ReqIds |-> NoPromise]
    /\ calls = [r \in ReqIds |-> 0]
    /\ nextReq = 0
    /\ dequeueLog = <<>>
    /\ resets = 0
    /\ permanentAt = [r \in ReqIds |-> 0]

----------------------------------------------------------------------------
(* useSummary hook (src/src/hooks/useSummary.js) driven by the dashboard     *)
(* (src/unnamed/part_001).  aiService is seen through its queue: requests    *)
(* execute one at a time in submission order, and each one ends, retries     *)
(* included, in a value or in an error.                                      *)

NoSummary == [id |-> 0, generatedAt |-> 0, isIncremental |-> FALSE, previousSummaryId |-> 0]

NoCycle == [cleared |-> FALSE, timers |-> FALSE, kind |-> "none", by |-> "none", phase |-> "none", input |-> <<>>,
            prev |-> NoSummary, left |-> 0, chunks |-> 0]

CycleIds == 1..MaxCycles

Running == {c \in CycleIds : cycles[c].kind # "none"}

RECURSIVE SumSeq(_)
SumSeq(s) == IF s = <<>> THEN 0 ELSE s[1] + SumSeq(Tail(s))

Ids(segs) == [i \in 1..Len(segs) |-> segs[i].id]

Range(s) == {s[i] : i \in 1..Len(s)}

\* segment.text.split(/\s+/).length of a trimmed text of n words: [""] when n = 0
SplitLength(n) == IF n = 0 THEN 1 ELSE n

\* autoGenerateSummary(): transcriptSegments.filter(segment => segment.isFinal)
FinalSegments(segs) == SelectSeq(segs, LAMBDA g : g.isFinal)

\* autoGenerateSummary(): totalWords
TotalWords(segs) == SumSeq([i \in 1..Len(segs) |-> SplitLength(segs[i].words)])

\* autoGenerateSummary(): the content and cadence thresholds
EnoughContent(finals) == ~(Len(finals) < MinSegments \/ TotalWords(finals) < MinWords)

TooSoon(cur, t) == t - cur.generatedAt < IntervalSeconds * 1000

\* autoGenerateSummary(): finalSegments.slice(lastTranscriptSegmentsRef.current.length)
NewSegments(finals, last) == SubSeq(finals, Len(last) + 1, Len(finals))

\* useSummary.generateSummary(transcriptSegments) up to its await, called by by
GenerateSummary(segs, by) ==
    IF ~aiReady \/ segs = <<>>
    THEN /\ hookError' = TRUE
         /\ UNCHANGED <<isGenerating, cycles, svcQueue, nextCycle>>
    ELSE /\ nextCycle < MaxCycles
         /\ \E n \in 1..MaxChunks :
               cycles' = [cycles EXCEPT ![nextCycle + 1] =
                   [cleared |-> FALSE, timers |-> TRUE, kind |-> "fresh", by |-> by, phase |-> "chunk", input |-> Ids(segs),
                    prev |-> currentSummary, left |-> n - 1, chunks |-> n]]
         /\ svcQueue' = Append(svcQueue, nextCycle + 1)
         /\ nextCycle' = nextCycle + 1
         /\ hookError' = FALSE
         /\ isGenerating' = TRUE

\* useSummary.generateIncrementalSummary(newSegments) up to its await; aiService's
\* generateIncrementalSummary queues one update request when there is a previous
\* summary and runs generateSummary when there is none.
GenerateIncrementalSummary(segs, by) ==
    IF ~aiReady
    THEN /\ hookError' = TRUE
         /\ UNCHANGED <<isGenerating, cycles, svcQueue, nextCycle>>
    ELSE IF segs = <<>>
    THEN UNCHANGED <<hookError, isGenerating, cycles, svcQueue, nextCycle>>
    ELSE /\ nextCycle < MaxCycles
         /\ \E n \in 1..MaxChunks :
               cycles' = [cycles EXCEPT ![nextCycle + 1] =
                   IF currentSummary = NoSummary
                   THEN [cleared |-> FALSE, timers |-> TRUE, kind |-> "incr", by |-> by, phase |-> "chunk", input |-> Ids(segs),
                         prev |-> currentSummary, left |-> n - 1, chunks |-> n]
                   ELSE [cleared |-> FALSE, timers |-> TRUE, kind |-> "incr", by |-> by, phase |-> "update", input |-> Ids(segs),
                         prev |-> currentSummary, left |-> 0, chunks |-> 0]]
         /\ svcQueue' = Append(svcQueue, nextCycle + 1)
         /\ nextCycle' = nextCycle + 1
         /\ hookError' = FALSE
         /\ isGenerating' = TRUE

\* handleAIConfiguration(apiKey): summary.initialize, then generateSummary of the
\* transcript when there is one
HandleAIConfiguration ==
    /\ aiReady' = TRUE
    /\ IF transcript = <<>>
       THEN UNCHANGED <<hookError, isGenerating, cycles, svcQueue, nextCycle>>
       ELSE /\ nextCycle < MaxCycles
            /\ \E n \in 1..MaxChunks :
                  cycles' = [cycles EXCEPT ![nextCycle + 1] =
                      [cleared |-> FALSE, timers |-> TRUE, kind |-> "fresh", by |-> "configure", phase |-> "chunk",
                       input |-> Ids(transcript),
                       prev |-> currentSummary, left |-> n - 1, chunks |-> n]]
            /\ svcQueue' = Append(svcQueue, nextCycle + 1)
            /\ nextCycle' = nextCycle + 1
            /\ hookError' = FALSE
            /\ isGenerating' = TRUE
    /\ UNCHANGED <<now, currentSummary, lastSegs, transcript, isRecordingSession,
                   nextSeg, nextSum, okInputs>>
    /\ UNCHANGED nonHook

\* handleRecordingStateChange({isRecording: true}): a new session; startListening
\* empties the transcript
StartRecording ==
    /\ ~isRecordingSession
    /\ isRecordingSession' = TRUE
    /\ transcript' = <<>>
    /\ UNCHANGED <<now, aiReady, isGenerating, currentSummary, hookError, lastSegs,
                   cycles, svcQueue, nextSeg, nextSum, nextCycle, okInputs>>
    /\ UNCHANGED nonHook

\* handleRecordingStateChange({isRecording: false}): the session ends and the
\* final summary is generated from the whole transcript
StopRecording ==
    /\ isRecordingSession
    /\ isRecordingSession' = FALSE
    /\ IF transcript = <<>>
       THEN UNCHANGED <<hookError, isGenerating, cycles, svcQueue, nextCycle>>
       ELSE GenerateSummary(transcript, "stop")
    /\ UNCHANGED <<now, aiReady, currentSummary, lastSegs, transcript, nextSeg, nextSum,
                   okInputs>>
    /\ UNCHANGED nonHook

\* speechService.onTranscriptUpdate(segment) with an interim segment of w words
OnTranscriptUpdate(w) ==
    /\ isRecordingSession
    /\ nextSeg < MaxSegments
    /\ transcript' = Append(FinalSegments(transcript),
                            [id |-> nextSeg + 1, isFinal |-> FALSE, words |-> w])
    /\ nextSeg' = nextSeg + 1
    /\ UNCHANGED <<now, aiReady, isGenerating, currentSummary, hookError, lastSegs,
                   isRecordingSession, cycles, svcQueue, nextSum, nextCycle, okInputs>>
    /\ UNCHANGED nonHook

\* speechService.onSegmentComplete(segment) with a final segment of w words
OnSegmentComplete(w) ==
    /\ isRecordingSession
    /\ nextSeg < MaxSegments
    /\ transcript' = Append(SelectSeq(transcript, LAMBDA g : g.id # nextSeg + 1),
                            [id |-> nextSeg + 1, isFinal |-> TRUE, words |-> w])
    /\ nextSeg' = nextSeg + 1
    /\ UNCHANGED <<now, aiReady, isGenerating, currentSummary, hookError, lastSegs,
                   isRecordingSession, cycles, svcQueue, nextSum, nextCycle, okInputs>>
    /\ UNCHANGED nonHook

\* The dashboard's debounced effect calls autoGenerateSummary(transcriptSegments,
\* options); can is what canMakeRequest() answers from the rate limiter.
AutoGenerateSummary(can) ==
    /\ isRecordingSession
    /\ transcript # <<>>
    /\ LET finals == FinalSegments(transcript) IN
       IF \/ ~aiReady \/ isGenerating \/ ~can
          \/ ~EnoughContent(finals)
          \/ (currentSummary # NoSummary /\ TooSoon(currentSummary, now))
       THEN UNCHANGED <<hookError, isGenerating, cycles, svcQueue, nextCycle>>
       ELSE IF currentSummary # NoSummary
       THEN IF NewSegments(finals, lastSegs) = <<>>
            THEN UNCHANGED <<hookError, isGenerating, cycles, svcQueue, nextCycle>>
            ELSE GenerateIncrementalSummary(NewSegments(finals, lastSegs), "auto")
       ELSE GenerateSummary(finals, "auto")
    /\ UNCHANGED <<now, aiReady, currentSummary, lastSegs, transcript,
                   isRecordingSession, nextSeg, nextSum, okInputs>>
    /\ UNCHANGED nonHook

\* refreshSummary(), from the summary panel's button (shown with a summary,
\* disabled while isGenerating)
RefreshSummary ==
    /\ currentSummary # NoSummary
    /\ ~isGenerating
    /\ lastSegs # <<>>
    /\ aiReady
    /\ nextCycle < MaxCycles
    /\ \E n \in 1..MaxChunks :
          cycles' = [cycles EXCEPT ![nextCycle + 1] =
              [cleared |-> FALSE, timers |-> TRUE, kind |-> "fresh", by |-> "refresh", phase |-> "chunk", input |-> lastSegs,
               prev |-> currentSummary, left |-> n - 1, chunks |-> n]]
    /\ svcQueue' = Append(svcQueue, nextCycle + 1)
    /\ nextCycle' = nextCycle + 1
    /\ hookError' = FALSE
    /\ isGenerating' = TRUE
    /\ UNCHANGED <<now, aiReady, currentSummary, lastSegs, transcript,
                   isRecordingSession, nextSeg, nextSum, okInputs>>
    /\ UNCHANGED nonHook

\* clearSummary()
ClearSummary ==
    /\ currentSummary' = NoSummary
    /\ hookError' = FALSE
    /\ lastSegs' = <<>>
    /\ cycles' = [c \in CycleIds |->
                     IF c \in Running THEN [cycles[c] EXCEPT !.cleared = TRUE]
                     ELSE cycles[c]]
    /\ UNCHANGED <<now, aiReady, isGenerating, transcript, isRecordingSession,
                   svcQueue, nextSeg, nextSum, nextCycle, okInputs>>
    /\ UNCHANGED nonHook

\* What aiService hands back when cycle c ends well, and what the hook does with it
NewSummary(c) ==
    IF cycles[c].kind = "incr" /\ cycles[c].prev # NoSummary
    THEN [id |-> nextSum + 1, generatedAt |-> now, isIncremental |-> TRUE,
          previousSummaryId |-> cycles[c].prev.id]
    ELSE [id |-> nextSum + 1, generatedAt |-> now, isIncremental |-> FALSE,
          previousSummaryId |-> 0]

\* useSummary.generateSummary after its await: setCurrentSummary(summary) and
\* lastTranscriptSegmentsRef.current = [...transcriptSegments]; generateIncrementalSummary
\* after its await: setCurrentSummary(updatedSummary) and the new segments appended
Succeeded(c) ==
    /\ currentSummary' = NewSummary(c)
    /\ nextSum' = nextSum + 1
    /\ lastSegs' = IF cycles[c].kind = "fresh" THEN cycles[c].input
                   ELSE lastSegs \o cycles[c].input
    /\ okInputs' = okInputs \cup Range(cycles[c].input)
    /\ isGenerating' = FALSE
    /\ cycles' = [cycles EXCEPT ![c] = NoCycle]
    /\ svcQueue' = Tail(svcQueue)
    /\ UNCHANGED hookError

\* aiService.generateIncrementalSummary's catch: return previousSummary, which the
\* hook takes for the update when it is not null
FailedIncremental(c) ==
    /\ IF cycles[c].prev # NoSummary
       THEN /\ currentSummary' = cycles[c].prev
            /\ lastSegs' = lastSegs \o cycles[c].input
       ELSE UNCHANGED <<currentSummary, lastSegs>>
    /\ isGenerating' = FALSE
    /\ cycles' = [cycles EXCEPT ![c] = NoCycle]
    /\ svcQueue' = Tail(svcQueue)
    /\ UNCHANGED <<hookError, nextSum, okInputs>>

\* (mutant) generateSummary's catch without its finally: the timers keep
\* running and isGenerating stays as it is
FailedFresh_NoFinally(c) ==
    /\ hookError' = TRUE
    /\ cycles' = [cycles EXCEPT ![c] = [@ EXCEPT !.phase = "failed"]]
    /\ svcQueue' = Tail(svcQueue)
    /\ UNCHANGED <<currentSummary, lastSegs, nextSum, okInputs, isGenerating>>

\* useSummary.generateSummary's catch and finally
FailedFresh(c) ==
    /\ hookError' = TRUE
    /\ isGenerating' = FALSE
    /\ cycles' = [cycles EXCEPT ![c] = NoCycle]
    /\ svcQueue' = Tail(svcQueue)
    /\ UNCHANGED <<currentSummary, lastSegs, nextSum, okInputs>>

\* The request at the head of aiService's queue resolves
RequestSucceeds ==
    /\ svcQueue # <<>>
    /\ LET c == Head(svcQueue) IN
       IF cycles[c].phase = "chunk" /\ (cycles[c].left > 0 \/ cycles[c].chunks > 1)
       THEN \* processChunk of the next chunk, or combineSummaries' consolidation
            /\ cycles' = [cycles EXCEPT ![c] =
                  IF cycles[c].left > 0 THEN [@ EXCEPT !.left = @ - 1]
                  ELSE [@ EXCEPT !.phase = "consolidate"]]
            /\ svcQueue' = Append(Tail(svcQueue), c)
            /\ UNCHANGED <<currentSummary, hookError, isGenerating, lastSegs, nextSum,
                           okInputs>>
       ELSE Succeeded(c)
    /\ UNCHANGED <<now, aiReady, transcript, isRecordingSession, nextSeg, nextCycle>>
    /\ UNCHANGED nonHook

\* The request at the head of aiService's queue is rejected, its retries exhausted
RequestFails ==
    /\ svcQueue # <<>>
    /\ LET c == Head(svcQueue) IN
       IF cycles[c].phase = "consolidate"
       THEN Succeeded(c)   \* combineSummaries falls back to the simple merge
       ELSE IF cycles[c].kind = "incr"
       THEN FailedIncremental(c)
       ELSE FailedFresh(c)
    /\ UNCHANGED <<now, aiReady, transcript, isRecordingSession, nextSeg, nextCycle>>
    /\ UNCHANGED nonHook

HookInit ==
    /\ aiReady = FALSE
    /\ isGenerating = FALSE
    /\ currentSummary = NoSummary
    /\ hookError = FALSE
    /\ lastSegs = <<>>
    /\ transcript = <<>>
    /\ isRecordingSession = FALSE
    /\ cycles = [c \in CycleIds |-> NoCycle]
    /\ svcQueue = <<>>
    /\ nextSeg = 0
    /\ nextSum = 0
    /\ nextCycle = 0
    /\ okInputs = {}

----------------------------------------------------------------------------
(* parseSummaryResponse and what it calls (src/src/services/aiService.js).   *)
(* A JavaScript value is a record of its type, a size (the number itself,    *)
(* or a string's word count) and, for an array, its elements by kind.  A     *)
(* response text is what the parser can observe of it: what JSON.parse does  *)
(* with the cleaned text, its word count and its non-blank lines by kind.    *)

Undefined == [t |-> "undefined", n |-> 0, e |-> <<>>]
Null == [t |-> "null", n |-> 0, e |-> <<>>]
Num(k) == [t |-> "number", n |-> k, e |-> <<>>]
Str(k) == [t |-> "string", n |-> k, e |-> <<>>]
Arr(s) == [t |-> "array", n |-> 0, e |-> s]
\* A string of k words with '...' after the last one
Ellipsis(k) == [t |-> "string", n |-> k, e |-> <<"...">>]
Obj == [t |-> "object", n |-> 0, e |-> <<>>]

\* Kinds of array elements: strings (plain, with a speaker attribution, empty)
\* and non-strings
ElemKinds == {"text", "attributed", "empty", "number", "null", "object"}

\* Kinds of non-blank lines, as createFallbackSummary tells them apart
LineKinds == {"bullet", "decision", "action", "quoted", "quotedEmpty", "plain"}

Fields == {"content", "keyPoints", "decisions", "actionItems", "quotes", "topics"}

SeqsUpTo(S, k) == UNION {[1..m -> S] : m \in 0..k}

\* Values a field of the model's answer can hold
FieldValues ==
    {Undefined, Null, Obj, Num(0), Num(1), Str(0), Str(1), Str(WordLimit),
     Str(WordLimit + 1)} \cup {Arr(s) : s \in SeqsUpTo(ElemKinds, MaxElems)}

\* What JSON.parse returns: a value and, of an object, its fields
Parsed(v, f) == [threw |-> FALSE, v |-> v, f |-> f]
SyntaxError == [threw |-> TRUE, v |-> Undefined, f |-> [k \in Fields |-> Undefined]]

NoFields == [k \in Fields |-> Undefined]

WellFormed ==
    [content |-> Str(1), keyPoints |-> Arr(<<"text">>), decisions |-> Arr(<<>>),
     actionItems |-> Arr(<<>>), quotes |-> Arr(<<"attributed">>),
     topics |-> Arr(<<"object">>)]

\* Objects explored: one field set or replaced in an empty and in a complete one
Objects ==
    {[base EXCEPT ![k] = v] : base \in {NoFields, WellFormed}, k \in Fields,
                              v \in FieldValues}

JsonOutcomes ==
    {SyntaxError} \cup {Parsed(v, NoFields) : v \in {Null, Num(1), Str(1), Arr(<<>>)}}
                  \cup {Parsed(Obj, f) : f \in Objects}

\* A text and what JSON.parse makes of it go together: a blank text is no JSON,
\* and a text that is one JSON scalar or array has no bullet line
Consistent(text) ==
    /\ text.lines = <<>> <=> text.n = 0
    /\ text.lines = <<>> => text.json.threw
    /\ (~text.json.threw /\ text.json.v.t # "object") =>
           /\ text.lines # <<>>
           /\ \A i \in 1..Len(text.lines) : text.lines[i] # "bullet"

ResponseTexts ==
    {text \in [json : JsonOutcomes, n : {0, 1, WordLimit, WordLimit + 1},
               lines : SeqsUpTo(LineKinds, MaxLines)] : Consistent(text)}

Truthy(v) == v.t \in {"array", "object"} \/ (v.t \in {"number", "string"} /\ v.n > 0)

\* a || b
OrElse(a, b) == IF Truthy(a) THEN a ELSE b

\* validateAndTrimContent(content)
ValidateAndTrimContent(content) ==
    IF ~Truthy(content) \/ content.t # "string" THEN Str(0)
    ELSE IF content.n > WordLimit THEN Ellipsis(WordLimit)
    ELSE content

IsArray(v) == v.t = "array"

\* Array.isArray(v) ? v : []
ArrayOrEmpty_Unchecked(v) == v

ArrayOrEmpty(v) == IF IsArray(v) THEN v ELSE Arr(<<>>)

\* sanitizeQuotes(quotes): non-strings become '', attributions are removed,
\* empty strings are filtered out
SanitizeQuote(q) == IF q \in {"text", "attributed"} THEN "text" ELSE "empty"

SanitizeQuotes(quotes) ==
    Arr(SelectSeq([i \in 1..Len(quotes.e) |-> SanitizeQuote(quotes.e[i])],
                  LAMBDA q : q # "empty"))

\* parseTopicSegmentation(topics)
ParseTopicSegmentation(topics) ==
    IF ~IsArray(topics) THEN Arr(<<>>)
    ELSE Arr([i \in 1..Len(SelectSeq(topics.e,
                  LAMBDA x : x \in {"text", "attributed", "empty", "object"})) |-> "topic"])

Threw == [threw |-> TRUE, content |-> Undefined, keyPoints |-> Undefined,
          decisions |-> Undefined, actionItems |-> Undefined, quotes |-> Undefined,
          topics |-> Undefined]

Take(s, k) == SubSeq(s, 1, Min(Len(s), k))

LinesOf(lines, kind, as) ==
    [i \in 1..Len(SelectSeq(lines, LAMBDA l : l = kind)) |-> as]

\* createFallbackSummary(responseText); a quoted line of nothing but the quote
\* marks is pushed as sanitizeQuotes([trimmed])[0], which is undefined
CreateFallbackSummary(text) ==
    [threw |-> FALSE,
     content |-> ValidateAndTrimContent(Str(text.n)),
     keyPoints |-> Arr(Take(LinesOf(text.lines, "bullet", "text"), FallbackKeyPoints)),
     decisions |-> Arr(Take(LinesOf(text.lines, "decision", "text"), FallbackDecisions)),
     actionItems |-> Arr(Take(LinesOf(text.lines, "action", "text"), FallbackActionItems)),
     quotes |-> Arr(Take([i \in 1..Len(SelectSeq(text.lines,
                             LAMBDA l : l \in {"quoted", "quotedEmpty"})) |->
                          IF SelectSeq(text.lines,
                                 LAMBDA l : l \in {"quoted", "quotedEmpty"})[i] = "quoted"
                          THEN "text" ELSE "undefined"], FallbackQuotes)),
     topics |-> Arr(<<>>)]

\* The try block of parseSummaryResponse: JSON.parse throws a SyntaxError, and
\* reading a property of null throws a TypeError
Structure(json) ==
    IF json.threw \/ json.v.t \in {"null", "undefined"} THEN Threw
    ELSE [threw |-> FALSE,
          content |-> ValidateAndTrimContent(OrElse(json.f["content"], Str(0))),
          keyPoints |-> ArrayOrEmpty(json.f["keyPoints"]),
          decisions |-> ArrayOrEmpty(json.f["decisions"]),
          actionItems |-> ArrayOrEmpty(json.f["actionItems"]),
          quotes |-> SanitizeQuotes(ArrayOrEmpty(json.f["quotes"])),
          topics |-> ParseTopicSegmentation(OrElse(json.f["topics"], Arr(<<>>)))]

\* parseSummaryResponse(responseText): the catch block turns to the fallback
ParseSummaryResponse(text) ==
    IF Structure(text.json).threw THEN CreateFallbackSummary(text)
    ELSE Structure(text.json)

NoText == [json |-> SyntaxError, n |-> 0, lines |-> <<>>]

\* A response arrives and is parsed
Parse ==
    /\ returned = "none"
    /\ returned' = "parseSummaryResponse"
    /\ parseResult' = ParseSummaryResponse(responseText)
    /\ UNCHANGED <<now, responseText, previousKeyPoints, answerKeyPoints,
                   updatedKeyPoints, segments, chunks>>
    /\ UNCHANGED <<schedVars, hookVars, speechVars, summaryVars, renderVars, textVars>>

----------------------------------------------------------------------------
(* aiService.generateIncrementalSummary seen as a function of the previous   *)
(* summary and of the parsed answer of the model.  A key point is a text and *)
(* the way it is written; two key points are the same when their texts are.  *)

KeyPoints == [text : 1..MaxTexts, form : {"plain", "upper"}]

\* Case- and whitespace-insensitive comparison key of a key point
Normalize(kp) == kp.text

Normalized(list) == {Normalize(list[i]) : i \in 1..Len(list)}

\* generateIncrementalSummary's return value: the lists are the answer's own
\* (result.keyPoints || []); when the request fails, previousSummary is returned
IncrementalResult(previous, answer, ok) == IF ok THEN answer ELSE previous

\* generateIncrementalSummary(newSegments, previousSummary) returns
IncrementalUpdate(ok) ==
    /\ returned = "none"
    /\ returned' = "generateIncrementalSummary"
    /\ updatedKeyPoints' = IncrementalResult(previousKeyPoints, answerKeyPoints, ok)
    /\ UNCHANGED <<now, responseText, parseResult, previousKeyPoints, answerKeyPoints,
                   segments, chunks>>
    /\ UNCHANGED <<schedVars, hookVars, speechVars, summaryVars, renderVars, textVars>>

----------------------------------------------------------------------------
(* createTranscriptChunks and getOverlapText (src/src/services/aiService.js). *)
(* A text is the sequence of the lengths of the pieces that single spaces    *)
(* separate, every piece followed by one space: a word has a positive length *)
(* and the empty text of a segment is one piece of length 0.                 *)

TargetDuration == SegmentDuration * 1000

\* Length of a text whose every word is followed by one space
TextLength(words) == SumSeq([i \in 1..Len(words) |-> words[i] + 1])

\* text.trim(): the empty pieces at both ends of the text are white space
RECURSIVE TrimStart(_)
TrimStart(words) ==
    IF words # <<>> /\ Head(words) = 0 THEN TrimStart(Tail(words)) ELSE words

RECURSIVE TrimEnd(_)
TrimEnd(words) ==
    IF words # <<>> /\ words[Len(words)] = 0
    THEN TrimEnd(SubSeq(words, 1, Len(words) - 1)) ELSE words

Trim(words) == TrimEnd(TrimStart(words))

\* text.trim().split(" "): the pieces of the trimmed text, one empty piece
\* for the empty text
SplitSpace(words) == IF Trim(words) = <<>> THEN <<0>> ELSE Trim(words)

\* words.slice(-overlapWords): the last pieces of the text
LastPieces(words, k) == SubSeq(words, Len(words) - k + 1, Len(words))

\* getOverlapText(text): the last min(overlapWords, words.length) pieces of
\* the trimmed text and a space
GetOverlapText(text) ==
    LET words == SplitSpace(text)
    IN  LastPieces(words, Min(OverlapWords, Len(words)))

EmptyChunk == [text |-> <<>>, startTime |-> -1, endTime |-> -1, segments |-> <<>>]

\* The loop body of createTranscriptChunks for one segment: the segment joins
\* the current chunk, which is then emitted if a limit is reached
AddSegment(cur, segment) ==
    [text |-> cur.text \o segment.text,
     startTime |-> IF cur.startTime = -1 THEN segment.timestamp ELSE cur.startTime,
     endTime |-> segment.timestamp + segment.duration,
     segments |-> Append(cur.segments, segment.id)]

ChunkReady(chunk) ==
    \/ chunk.endTime - chunk.startTime >= TargetDuration
    \/ TextLength(chunk.text) > MaxChunkSize

RECURSIVE ChunkLoop(_, _, _)
ChunkLoop(segs, emitted, cur) ==
    IF segs = <<>>
    THEN IF Trim(cur.text) # <<>> THEN Append(emitted, cur) ELSE emitted
    ELSE LET chunk == AddSegment(cur, Head(segs))
         IN  IF ChunkReady(chunk)
             THEN ChunkLoop(Tail(segs), Append(emitted, chunk),
                            [text |-> GetOverlapText(chunk.text),
                             startTime |-> Head(segs).timestamp,
                             endTime |-> -1, segments |-> <<>>])
             ELSE ChunkLoop(Tail(segs), emitted, chunk)

CreateTranscriptChunks(segs) == ChunkLoop(segs, <<>>, EmptyChunk)

\* Segment texts and the pauses between segments explored
SegmentTexts == (SeqsUpTo({1, LongWord}, MaxSegWords) \ {<<>>}) \cup {<<0>>}
SegmentGaps == {Quantum, TargetDuration + Quantum}

\* A stream of final segments: timestamps grow by the pauses, and a segment's
\* duration is the time since the segment before it (addTranscriptSegment)
Stream(texts, gaps) ==
    [i \in 1..Len(texts) |->
        [id |-> i, text |-> texts[i], timestamp |-> SumSeq(SubSeq(gaps, 1, i)),
         duration |-> gaps[i]]]

StreamsUpTo(k) ==
    UNION {{Stream(texts, gaps) : texts \in [1..m -> SegmentTexts],
                                     gaps \in [1..m -> SegmentGaps]} : m \in 0..k}

\* createTranscriptChunks(segments) returns
Chunk ==
    /\ returned = "none"
    /\ returned' = "createTranscriptChunks"
    /\ chunks' = CreateTranscriptChunks(segments)
    /\ UNCHANGED <<now, responseText, parseResult, previousKeyPoints, answerKeyPoints,
                   updatedKeyPoints, segments>>
    /\ UNCHANGED <<schedVars, hookVars, speechVars, summaryVars, renderVars, textVars>>

-----------------------------------------------------------------------------
(* SpeechService in Web Speech mode (src/src/services/systemAudioTranscriber.js). *)
(* A transcript is a string; " " stands for any text of white space only.    *)
(* A confidence is in tenths.                                                *)

NoTime == -1

ManualConfidence == 8

InterimConfidence == 5

\* The state of the service that the segment functions read and write
Service ==
    [currentTranscript |-> currentTranscript,
     transcriptSegments |-> transcriptSegments,
     lastSegmentTime |-> lastSegmentTime,
     segmentCompleteCalls |-> segmentCompleteCalls]

\* String.prototype.trim()
TrimText(text) == IF text = " " THEN "" ELSE text

CreateTranscriptSegment(text, timestamp, confidence, isFinal) ==
    [text |-> TrimText(text), timestamp |-> timestamp, confidence |-> confidence,
     isFinal |-> isFinal, duration |-> 0]

\* A variant of addTranscriptSegment that leaves currentTranscript as it is
AddTranscriptSegment_KeepsTranscript(s, segment) ==
    LET timed == segment.isFinal /\ s.lastSegmentTime # NoTime
        added == IF timed
                 THEN [segment EXCEPT !.duration = segment.timestamp - s.lastSegmentTime]
                 ELSE segment
    IN  [s EXCEPT !.lastSegmentTime = IF timed THEN segment.timestamp ELSE @,
                  !.transcriptSegments = Append(@, added),
                  !.segmentCompleteCalls = Append(@, added)]

\* addTranscriptSegment(segment): the duration of a final segment is the time
\* since the last one; the segment is stored and handed to onSegmentComplete;
\* a final segment clears currentTranscript
AddTranscriptSegment(s, segment) ==
    LET timed == segment.isFinal /\ s.lastSegmentTime # NoTime
        added == IF timed
                 THEN [segment EXCEPT !.duration = segment.timestamp - s.lastSegmentTime]
                 ELSE segment
    IN  [s EXCEPT !.lastSegmentTime = IF timed THEN segment.timestamp ELSE @,
                  !.transcriptSegments = Append(@, added),
                  !.segmentCompleteCalls = Append(@, added),
                  !.currentTranscript = IF segment.isFinal THEN "" ELSE @]

\* finalizeCurrentSegment() at time t
FinalizeCurrentSegment(s, t) ==
    IF TrimText(s.currentTranscript) # ""
    THEN AddTranscriptSegment(s,
             CreateTranscriptSegment(s.currentTranscript, t, ManualConfidence, TRUE))
    ELSE s

\* handleResult's loop over the final results of an event
RECURSIVE AddFinalResults(_, _, _)
AddFinalResults(s, finals, t) ==
    IF finals = <<>> THEN s
    ELSE AddFinalResults(
             AddTranscriptSegment(s,
                 CreateTranscriptSegment(Head(finals).transcript, t,
                                         Head(finals).confidence, TRUE)),
             Tail(finals), t)

\* The service after a function has run on it
Becomes(s) ==
    /\ currentTranscript' = s.currentTranscript
    /\ transcriptSegments' = s.transcriptSegments
    /\ lastSegmentTime' = s.lastSegmentTime
    /\ segmentCompleteCalls' = s.segmentCompleteCalls

\* useTranscription's onSegmentComplete callback: the segments of the same id
\* are filtered out and the segment is appended; every segment has an id of
\* its own (a time stamp and a random string), so none is filtered out
SegmentCompleteCallback(prev, segment) == Append(prev, segment)

\* useTranscription's onTranscriptUpdate callback: a segment that is not final
\* replaces the segments that are not final
TranscriptUpdateCallback(prev, segment) ==
    IF segment.isFinal THEN prev
    ELSE Append(SelectSeq(prev, LAMBDA d : d.isFinal), segment)

\* The list of useTranscription after the service, which becomes s, has
\* handed its new segments to onSegmentComplete
RECURSIVE Completed(_, _)
Completed(prev, handedOver) ==
    IF handedOver = <<>> THEN prev
    ELSE Completed(SegmentCompleteCallback(prev, Head(handedOver)), Tail(handedOver))

Displayed(s) ==
    Completed(displaySegments,
              SubSeq(s.segmentCompleteCalls, Len(segmentCompleteCalls) + 1,
                     Len(s.segmentCompleteCalls)))

\* Transcripts and confidences of the recognition results explored
Transcripts == {"", " ", "a"}
Confidences == {9, 11}
FinalResults == [transcript : Transcripts, confidence : Confidences]

\* startListening(): the state is reset for a new session, and the recognition
\* starts (isListening) or fails to
StartListening(started) ==
    /\ ~isListening
    /\ isListening' = started
    /\ isPaused' = FALSE
    /\ currentTranscript' = ""
    /\ transcriptSegments' = <<>>
    /\ sessionStartTime' = now
    /\ lastSegmentTime' = now
    /\ segmentCompleteCalls' = <<>>
    /\ finalizersInARow' = 0
    /\ displaySegments' = IF started THEN <<>> ELSE displaySegments
    /\ retryCount' = 0
    /\ stopRequested' = FALSE
    /\ timerStarted' = FALSE
    /\ UNCHANGED <<now, retryTimers, restartTimers, nonSpeech>>

\* handleResult(event): every final result becomes a segment; the interim
\* results, concatenated, become currentTranscript
HandleResult(finals, interimTranscript) ==
    /\ sessionStartTime # NoTime
    /\ Len(transcriptSegments) + Len(finals) <= MaxSpeechSegments
    /\ Len(displaySegments) + Len(finals) <= MaxDisplaySegments
    /\ LET s == AddFinalResults(Service, finals, now)
       IN  IF interimTranscript # ""
           THEN /\ Becomes([s EXCEPT !.currentTranscript = interimTranscript])
                /\ displaySegments' =
                       TranscriptUpdateCallback(Displayed(s),
                           CreateTranscriptSegment(interimTranscript, now,
                                                   InterimConfidence, FALSE))
           ELSE /\ Becomes(s)
                /\ displaySegments' = Displayed(s)
    /\ finalizersInARow' = 0
    /\ retryCount' = 0
    /\ UNCHANGED <<now, isListening, isPaused, sessionStartTime, retryTimers,
                   restartTimers, stopRequested, timerStarted, nonSpeech>>

StopListening ==
    /\ isListening
    /\ finalizersInARow < MaxFinalizers
    /\ isListening' = FALSE
    /\ isPaused' = FALSE
    /\ Becomes(FinalizeCurrentSegment(Service, now))
    /\ displaySegments' = Displayed(FinalizeCurrentSegment(Service, now))
    /\ finalizersInARow' = finalizersInARow + 1
    /\ stopRequested' = TRUE
    /\ timerStarted' = FALSE
    /\ UNCHANGED <<now, sessionStartTime, retryCount, retryTimers, restartTimers, nonSpeech>>

PauseListening ==
    /\ isListening /\ ~isPaused
    /\ finalizersInARow < MaxFinalizers
    /\ isPaused' = TRUE
    /\ Becomes(FinalizeCurrentSegment(Service, now))
    /\ displaySegments' = Displayed(FinalizeCurrentSegment(Service, now))
    /\ finalizersInARow' = finalizersInARow + 1
    /\ UNCHANGED <<now, isListening, sessionStartTime, retryCount, retryTimers,
                   restartTimers, stopRequested, timerStarted, nonSpeech>>

ResumeListening ==
    /\ isPaused
    /\ isListening' = TRUE
    /\ isPaused' = FALSE
    /\ lastSegmentTime' = now
    /\ finalizersInARow' = 0
    /\ stopRequested' = FALSE
    /\ timerStarted' = FALSE
    /\ UNCHANGED <<now, currentTranscript, transcriptSegments, sessionStartTime,
                   segmentCompleteCalls, displaySegments, retryCount, retryTimers,
                   restartTimers, nonSpeech>>

\* finalizeCurrentSegment() called on the service by its owner
Finalize ==
    /\ finalizersInARow < MaxFinalizers
    /\ Becomes(FinalizeCurrentSegment(Service, now))
    /\ displaySegments' = Displayed(FinalizeCurrentSegment(Service, now))
    /\ finalizersInARow' = finalizersInARow + 1
    /\ UNCHANGED <<now, isListening, isPaused, sessionStartTime, retryCount, retryTimers,
                   restartTimers, stopRequested, timerStarted, nonSpeech>>

\* Time passes during a session
SpeechTick ==
    /\ now + Quantum <= MaxSpeechTime
    /\ now' = now + Quantum
    /\ UNCHANGED <<speechVars, nonSpeech>>

\* config.maxRetries
SpeechMaxRetries == 3

MaxTimers == 2

NoTimers == [waiting |-> 0, pausing |-> 0]

\* stopListening() when the service is not listening and a retry of
\* handleNetworkError is pending: the call returns false
StopListeningInactive ==
    /\ ~isListening
    /\ retryTimers # NoTimers
    /\ stopRequested' = TRUE
    /\ timerStarted' = FALSE
    /\ UNCHANGED <<now, isListening, isPaused, currentTranscript, transcriptSegments,
                   sessionStartTime, lastSegmentTime, segmentCompleteCalls,
                   finalizersInARow, displaySegments, retryCount, retryTimers,
                   restartTimers, nonSpeech>>

\* What an error handler leaves alone
ErrorFrame ==
    UNCHANGED <<now, currentTranscript, transcriptSegments, sessionStartTime,
                lastSegmentTime, segmentCompleteCalls, finalizersInARow, displaySegments,
                stopRequested, timerStarted, nonSpeech>>

\* handleCriticalError(error), for the errors audio-capture and not-allowed
HandleCriticalError ==
    /\ isListening
    /\ isListening' = FALSE
    /\ isPaused' = FALSE
    /\ UNCHANGED <<retryCount, retryTimers, restartTimers>>
    /\ ErrorFrame

\* handleNetworkError(error): the recognition that runs reports a network error
HandleNetworkError ==
    /\ isListening /\ ~isPaused
    /\ retryTimers.waiting + retryTimers.pausing < MaxTimers
    /\ isListening' = FALSE
    /\ isPaused' = FALSE
    /\ IF retryCount < SpeechMaxRetries
       THEN /\ retryCount' = retryCount + 1
            /\ retryTimers' = [retryTimers EXCEPT !.waiting = @ + 1]
       ELSE UNCHANGED <<retryCount, retryTimers>>
    /\ UNCHANGED restartTimers
    /\ ErrorFrame

\* The timer of handleNetworkError fires: recognition.stop() and abort(), and
\* the callback awaits its pause of 500 ms
NetworkRetryFires ==
    /\ retryTimers.waiting > 0
    /\ retryTimers' = [waiting |-> retryTimers.waiting - 1,
                       pausing |-> retryTimers.pausing + 1]
    /\ UNCHANGED <<isListening, isPaused, retryCount, restartTimers>>
    /\ ErrorFrame

\* The pause is over: if (!this.isListening && !this.isPaused) the recognition
\* is made anew and started, unless making it fails or start() throws
NetworkRetryRestarts(outcome) ==
    /\ retryTimers.pausing > 0
    /\ retryTimers' = [retryTimers EXCEPT !.pausing = @ - 1]
    /\ IF ~isListening /\ ~isPaused
       THEN /\ isListening' = (outcome = "started")
            /\ timerStarted' = (timerStarted \/ outcome = "started")
            /\ retryCount' = IF outcome = "threw" THEN SpeechMaxRetries ELSE retryCount
       ELSE UNCHANGED <<isListening, timerStarted, retryCount>>
    /\ UNCHANGED <<now, isPaused, currentTranscript, transcriptSegments, sessionStartTime,
                   lastSegmentTime, segmentCompleteCalls, finalizersInARow, displaySegments,
                   restartTimers, stopRequested, nonSpeech>>

\* handleEnd() and handleNoSpeechError(): the recognition has ended while the
\* service listens, and a timer is set to start it again
HandleEnd ==
    /\ isListening /\ ~isPaused
    /\ restartTimers < MaxTimers
    /\ restartTimers' = restartTimers + 1
    /\ UNCHANGED <<isListening, isPaused, retryCount, retryTimers>>
    /\ ErrorFrame

\* handleRecoveryError(error)
HandleRecoveryError ==
    /\ isListening
    /\ restartTimers < MaxTimers
    /\ IF retryCount < SpeechMaxRetries /\ ~isPaused
       THEN /\ retryCount' = retryCount + 1
            /\ restartTimers' = restartTimers + 1
            /\ UNCHANGED <<isListening, isPaused>>
       ELSE /\ isListening' = FALSE
            /\ isPaused' = FALSE
            /\ UNCHANGED <<retryCount, restartTimers>>
    /\ UNCHANGED retryTimers
    /\ ErrorFrame

\* A restart timer fires: if (this.isListening && !this.isPaused)
\* recognition.start()
RestartFires ==
    /\ restartTimers > 0
    /\ restartTimers' = restartTimers - 1
    /\ timerStarted' = (timerStarted \/ (isListening /\ ~isPaused))
    /\ UNCHANGED <<now, isListening, isPaused, currentTranscript, transcriptSegments,
                   sessionStartTime, lastSegmentTime, segmentCompleteCalls,
                   finalizersInARow, displaySegments, retryCount, retryTimers,
                   stopRequested, nonSpeech>>

\* cleanup(): stopListening() if the service listens, and the state is reset;
\* of the timers only processingTimeout is cleared
SpeechCleanup ==
    /\ finalizersInARow < MaxFinalizers
    /\ LET s == IF isListening THEN FinalizeCurrentSegment(Service, now) ELSE Service
       IN  /\ segmentCompleteCalls' = s.segmentCompleteCalls
           /\ displaySegments' = Displayed(s)
    /\ isListening' = FALSE
    /\ isPaused' = FALSE
    /\ currentTranscript' = ""
    /\ transcriptSegments' = <<>>
    /\ sessionStartTime' = NoTime
    /\ lastSegmentTime' = NoTime
    /\ retryCount' = 0
    /\ finalizersInARow' = finalizersInARow + 1
    /\ stopRequested' = TRUE
    /\ timerStarted' = FALSE
    /\ UNCHANGED <<now, retryTimers, restartTimers, nonSpeech>>

SpeechInit ==
    /\ isListening = FALSE
    /\ isPaused = FALSE
    /\ currentTranscript = ""
    /\ transcriptSegments = <<>>
    /\ displaySegments = <<>>
    /\ sessionStartTime = NoTime
    /\ lastSegmentTime = NoTime
    /\ segmentCompleteCalls = <<>>
    /\ finalizersInARow = 0
    /\ retryCount = 0
    /\ retryTimers = NoTimers
    /\ restartTimers = 0
    /\ stopRequested = FALSE
    /\ timerStarted = FALSE

-----------------------------------------------------------------------------
(* The summaries handed to callers: AIService.generateSummary with            *)
(* processChunk and combineSummaries, AIService.generateIncrementalSummary    *)
(* (src/src/services/aiService.js) and SummaryService.generateSummary         *)
(* (src/src/services/summaryService.js).  Of the list fields keyPoints is     *)
(* followed; decisions, actionItems and quotes are merged by the same         *)
(* expressions.  A list item is a text and the way it is written.             *)

ContentSizes == {0, 1, WordLimit, WordLimit + 1}

SummaryItems == [text : {1}, form : {"plain", "upper"}]

\* A list of one item more than the cap of the merged key points
LongList == [i \in 1..(KeyPointsCap + 1) |-> [text |-> i, form |-> "plain"]]

\* The answers of the model to a chunk that parseSummaryResponse can structure
Responses ==
    [words : ContentSizes, keyPoints : SeqsUpTo(SummaryItems, MaxItems) \cup {LongList}]

\* A summary object; id 0 stands for no id, and a field that the object does
\* not have reads as undefined
NoneHanded ==
    [threw |-> FALSE, content |-> Undefined, keyPoints |-> <<>>, id |-> 0,
     isIncremental |-> Undefined, previousSummaryId |-> Undefined]
Thrown == [NoneHanded EXCEPT !.threw = TRUE]
Summary(content, keyPoints) ==
    [NoneHanded EXCEPT !.content = content, !.keyPoints = keyPoints]

Bool(b) == [t |-> "boolean", n |-> IF b THEN 1 ELSE 0, e |-> <<>>]

\* generateId(): an id that no summary before has; the ids are numbered
GenerateId(previous) == previous.id + 1

\* The object that generateSummary returns for the combined summary
FreshSummary(summary) ==
    IF summary.threw THEN summary ELSE [summary EXCEPT !.id = GenerateId(NoneHanded)]

\* The object that generateIncrementalSummary returns for the parsed answer
UpdatedSummary(summary, previousSummary) ==
    [summary EXCEPT !.id = GenerateId(previousSummary),
                    !.isIncremental = Bool(TRUE),
                    !.previousSummaryId = Num(previousSummary.id)]

\* processChunk: the answer as parseSummaryResponse structures it
ProcessChunk(response) ==
    Summary(ValidateAndTrimContent(OrElse(Str(response.words), Str(0))),
            response.keyPoints)

\* a + ' ' + b of two trimmed strings
JoinTwo(a, b) ==
    [t |-> "string", n |-> a.n + b.n, e |-> IF b.n > 0 THEN b.e ELSE a.e]

\* chunkSummaries.map((s) => s.content).join(' ')
RECURSIVE JoinContents(_)
JoinContents(summaries) ==
    IF summaries = <<>> THEN Str(0)
    ELSE JoinTwo(JoinContents(SubSeq(summaries, 1, Len(summaries) - 1)),
                 summaries[Len(summaries)].content)

\* chunkSummaries.flatMap((s) => s.keyPoints || [])
RECURSIVE FlatMap(_)
FlatMap(summaries) ==
    IF summaries = <<>> THEN <<>>
    ELSE Head(summaries).keyPoints \o FlatMap(Tail(summaries))

\* [...new Set(list)]: an item stays where it is first seen; two items are the
\* same when they are the same string
RECURSIVE Unique(_)
Unique(list) ==
    IF list = <<>> THEN <<>>
    ELSE LET before == Unique(SubSeq(list, 1, Len(list) - 1))
             item == list[Len(list)]
         IN  IF \E i \in 1..Len(before) : before[i] = item
             THEN before ELSE Append(before, item)

ConsolidationFailed == [failed |-> TRUE, words |-> 0, keyPoints |-> <<>>]
Consolidated(response) ==
    [failed |-> FALSE, words |-> response.words, keyPoints |-> response.keyPoints]

\* The fallback of combineSummaries: a simple merge
SimpleMerge(chunkSummaries) ==
    Summary(ValidateAndTrimContent(JoinContents(chunkSummaries)),
            Take(Unique(FlatMap(chunkSummaries)), KeyPointsCap))

\* A variant of combineSummaries that throws the error of a failed
\* consolidation request on
CombineSummaries_Rethrows(chunkSummaries, consolidation) ==
    IF Len(chunkSummaries) = 1 THEN chunkSummaries[1]
    ELSE IF Len(chunkSummaries) > 1 /\ ~consolidation.failed
         THEN ProcessChunk(consolidation)
         ELSE IF Len(chunkSummaries) > 1 THEN Thrown
         ELSE SimpleMerge(chunkSummaries)

\* combineSummaries(chunkSummaries) with the outcome of the consolidation
\* request, which is made for more than one chunk summary
CombineSummaries(chunkSummaries, consolidation) ==
    IF Len(chunkSummaries) = 1 THEN chunkSummaries[1]
    ELSE IF Len(chunkSummaries) > 1 /\ ~consolidation.failed
         THEN ProcessChunk(consolidation)
         ELSE SimpleMerge(chunkSummaries)

\* Words of the text that the content of combineSummaries' result is made from
CombinedSource(responses, consolidation) ==
    IF Len(responses) = 1 THEN responses[1].words
    ELSE IF Len(responses) > 1 /\ ~consolidation.failed THEN consolidation.words
    ELSE JoinContents([i \in 1..Len(responses) |-> ProcessChunk(responses[i])]).n

\* AIService.generateSummary(transcriptSegments): every chunk is summarized,
\* the chunk summaries are combined; an error of processChunk is thrown on
AIGenerateSummary(chunkFails, consolidation) ==
    /\ returned = "none"
    /\ chunkFails => chunkResponses # <<>>
    /\ returned' = "AIService.generateSummary"
    /\ handed' = IF chunkFails THEN Thrown
                 ELSE FreshSummary(CombineSummaries(
                          [i \in 1..Len(chunkResponses) |-> ProcessChunk(chunkResponses[i])],
                          consolidation))
    /\ sourceWords' = IF chunkFails THEN 0
                      ELSE CombinedSource(chunkResponses, consolidation)
    /\ UNCHANGED <<now, chunkResponses, responseText, parseResult, previousKeyPoints,
                   answerKeyPoints, updatedKeyPoints, segments, chunks>>
    /\ UNCHANGED <<schedVars, hookVars, speechVars, renderVars, textVars>>

\* AIService.generateIncrementalSummary(newSegments, previousSummary) for new
\* segments and the summary handed out before: the structured answer, or the
\* previous summary when the request fails.  The updates are followed for the
\* summaries of transcripts of one chunk.
AIGenerateIncrementalSummary(failed, response) ==
    /\ returned \in {"AIService.generateSummary", "AIService.generateIncrementalSummary"}
    /\ Len(chunkResponses) = 1
    /\ ~handed.threw
    /\ ~failed => handed.id < MaxSummaryIds
    /\ returned' = "AIService.generateIncrementalSummary"
    /\ handed' = IF failed THEN handed ELSE UpdatedSummary(ProcessChunk(response), handed)
    /\ sourceWords' = IF failed THEN sourceWords ELSE response.words
    /\ UNCHANGED <<now, chunkResponses, responseText, parseResult, previousKeyPoints,
                   answerKeyPoints, updatedKeyPoints, segments, chunks>>
    /\ UNCHANGED <<schedVars, hookVars, speechVars, renderVars, textVars>>

\* The answers to an uploaded text: a text with or without the header of a
\* main summary section before its body
SummaryTexts == [header : BOOLEAN, body : ContentSizes]
HeaderWords == 2

\* parseStructuredSummary(summaryText).content: mainContent || summaryText
ParseStructuredSummary(text) ==
    IF text.header /\ text.body > 0 THEN Str(text.body)
    ELSE Str(text.body + (IF text.header THEN HeaderWords ELSE 0))

\* SummaryService.generateSummary(text): structuredSummary.content || summaryText
SummaryServiceGenerateSummary(text) ==
    /\ returned = "none"
    /\ returned' = "SummaryService.generateSummary"
    /\ handed' = Summary(OrElse(ParseStructuredSummary(text),
                                Str(text.body + (IF text.header THEN HeaderWords ELSE 0))),
                         <<>>)
    /\ sourceWords' = handed'.content.n
    /\ UNCHANGED <<now, chunkResponses, responseText, parseResult, previousKeyPoints,
                   answerKeyPoints, updatedKeyPoints, segments, chunks>>
    /\ UNCHANGED <<schedVars, hookVars, speechVars, renderVars, textVars>>

SummaryIdle ==
    /\ chunkResponses = <<>>
    /\ handed = NoneHanded
    /\ sourceWords = 0

-----------------------------------------------------------------------------
(* The plain-text renderings of a summary for export and sharing:            *)
(* handleExport (MeetingNotesDashboard.jsx), generateEmailContent            *)
(* (EmailShare.jsx) and copyFullSummary (AudioControls.jsx).  A text is the  *)
(* sequence of its lines that are not blank; an item is known by its number. *)

Line(kind, of, topic, item) == [kind |-> kind, of |-> of, topic |-> topic, item |-> item]

RECURSIVE Concat(_)
Concat(texts) == IF texts = <<>> THEN <<>> ELSE Head(texts) \o Concat(Tail(texts))

\* list.map(item => `• ${item}`).join('\n')
Bullets(of, list) == [i \in 1..Len(list) |-> Line("bullet", of, 0, list[i])]

\* A heading and the bullets of a list, if the list has items
SectionIfAny(of, list) ==
    IF Len(list) > 0 THEN <<Line("heading", of, 0, 0)>> \o Bullets(of, list) ELSE <<>>

\* handleExport(summary): the content of the file
HandleExportContent(s) ==
    Concat(<< <<Line("title", "", 0, 0), Line("generated", "", 0, 0)>>,
              IF s.fileName THEN <<Line("source", "", 0, 0)>> ELSE <<>>,
              <<Line("content", "content", 0, 0)>>,
              SectionIfAny("keyPoints", s.keyPoints),
              SectionIfAny("decisions", s.decisions),
              SectionIfAny("actionItems", s.actionItems) >>)

\* generateEmailContent(): the body of the mail
GenerateEmailContent(s, includeMetadata) ==
    Concat(<< <<Line("message", "", 0, 0), Line("title", "", 0, 0),
                Line("content", "content", 0, 0)>>,
              SectionIfAny("keyPoints", s.keyPoints),
              SectionIfAny("decisions", s.decisions),
              SectionIfAny("actionItems", s.actionItems),
              IF includeMetadata
              THEN Concat(<< <<Line("heading", "metadata", 0, 0),
                               Line("generated", "", 0, 0)>>,
                             IF s.processingTime
                             THEN <<Line("processingTime", "", 0, 0)>> ELSE <<>>,
                             IF s.isEdited
                             THEN <<Line("lastModified", "", 0, 0)>> ELSE <<>> >>)
              ELSE <<>> >>)

\* A heading and the bullets of a list, or None
SectionOrNone(of, list) ==
    <<Line("heading", of, 0, 0)>>
        \o (IF list = <<>> THEN <<Line("none", of, 0, 0)>> ELSE Bullets(of, list))

\* The lines of a topic: its name, and its points or a line that it has none
TopicLines(topics, t) ==
    <<Line("topic", "topics", t, 0)>>
        \o (IF topics[t].points = <<>>
            THEN <<Line("nopoints", "topics", t, 0)>>
            ELSE [j \in 1..Len(topics[t].points) |->
                      Line("point", "topics", t, topics[t].points[j])])

\* copyFullSummary(): the text put on the clipboard
CopyFullSummaryText(s) ==
    Concat(<< <<Line("title", "", 0, 0), Line("generated", "", 0, 0),
                Line("content", "content", 0, 0)>>,
              SectionOrNone("keyPoints", s.keyPoints),
              SectionOrNone("decisions", s.decisions),
              SectionOrNone("actionItems", s.actionItems),
              <<Line("heading", "quotes", 0, 0)>>,
              IF s.quotes = <<>> THEN <<Line("none", "quotes", 0, 0)>>
              ELSE [i \in 1..Len(s.quotes) |-> Line("quote", "quotes", 0, s.quotes[i])],
              IF Len(s.topics) > 0
              THEN <<Line("heading", "topics", 0, 0)>>
                       \o Concat([t \in 1..Len(s.topics) |-> TopicLines(s.topics, t)])
              ELSE <<>> >>)

\* The lists and the summaries rendered
ItemLists == {[i \in 1..k |-> i] : k \in 0..MaxRenderItems}
RenderedSummaries ==
    [fileName : BOOLEAN, processingTime : BOOLEAN, isEdited : BOOLEAN,
     keyPoints : ItemLists, decisions : ItemLists, actionItems : ItemLists,
     quotes : ItemLists, topics : SeqsUpTo([points : ItemLists], MaxRenderItems)]

HandleExport ==
    /\ returned = "none"
    /\ returned' = "handleExport"
    /\ exportText' = HandleExportContent(exportSummary)
    /\ UNCHANGED <<now, exportSummary, responseText, parseResult, previousKeyPoints,
                   answerKeyPoints, updatedKeyPoints, segments, chunks>>
    /\ UNCHANGED <<schedVars, hookVars, speechVars, summaryVars, textVars>>

EmailShare(includeMetadata) ==
    /\ returned = "none"
    /\ returned' = "generateEmailContent"
    /\ exportText' = GenerateEmailContent(exportSummary, includeMetadata)
    /\ UNCHANGED <<now, exportSummary, responseText, parseResult, previousKeyPoints,
                   answerKeyPoints, updatedKeyPoints, segments, chunks>>
    /\ UNCHANGED <<schedVars, hookVars, speechVars, summaryVars, textVars>>

CopyFullSummary ==
    /\ returned = "none"
    /\ returned' = "copyFullSummary"
    /\ exportText' = CopyFullSummaryText(exportSummary)
    /\ UNCHANGED <<now, exportSummary, responseText, parseResult, previousKeyPoints,
                   answerKeyPoints, updatedKeyPoints, segments, chunks>>
    /\ UNCHANGED <<schedVars, hookVars, speechVars, summaryVars, textVars>>

NoRenderedSummary ==
    [fileName |-> FALSE, processingTime |-> FALSE, isEdited |-> FALSE,
     keyPoints |-> <<>>, decisions |-> <<>>, actionItems |-> <<>>,
     quotes |-> <<>>, topics |-> <<>>]

RenderIdle ==
    /\ exportSummary = NoRenderedSummary
    /\ exportText = <<>>

(***************************************************************************)
(* mergeTopics (src/src/services/aiService.js).  A text is the sequence of *)
(* its characters.  The name of a topic is a JavaScript value: a string,   *)
(* or a number when the response of the model gave a number for it.        *)
(***************************************************************************)

MaxNameLen == 2
MaxPoints == 2
MaxTopics == 2

NameChars == {"a", "A", " "}
Points == 1..2

Text(chars) == [t |-> "Str", s |-> chars]
Number == [t |-> "Num", s |-> <<>>]

\* !value for a string or a non-zero number
Falsy(value) == value.t = "Str" /\ value.s = <<>>

\* String.prototype.toLowerCase
ToLowerCase(chars) == [i \in 1..Len(chars) |-> IF chars[i] = "A" THEN "a" ELSE chars[i]]

\* String.prototype.trim
RECURSIVE TrimChars(_)
TrimChars(chars) ==
    IF chars # <<>> /\ Head(chars) = " " THEN TrimChars(Tail(chars))
    ELSE IF chars # <<>> /\ chars[Len(chars)] = " "
         THEN TrimChars(SubSeq(chars, 1, Len(chars) - 1))
         ELSE chars

\* topic.name.toLowerCase().trim()
TopicName(topic) == TrimChars(ToLowerCase(topic.name.s))

\* topicMap.has(topicName): the place of the key in the Map, 0 when absent
Place(topicMap, topicName) ==
    IF \E i \in 1..Len(topicMap) : topicMap[i].key = topicName
    THEN CHOOSE i \in 1..Len(topicMap) : topicMap[i].key = topicName
    ELSE 0

\* topics.forEach(topic => ...) over a Map that keeps the order of insertion;
\* toLowerCase is not a function of a number, and the call throws
RECURSIVE ForEachTopic(_, _)
ForEachTopic(list, topicMap) ==
    IF list = <<>> THEN [threw |-> FALSE, topics |-> topicMap]
    ELSE LET topic == Head(list)
         IN  IF Falsy(topic.name) THEN ForEachTopic(Tail(list), topicMap)
             ELSE IF topic.name.t # "Str" THEN [threw |-> TRUE, topics |-> <<>>]
             ELSE LET at == Place(topicMap, TopicName(topic))
                  IN  IF at > 0
                      THEN ForEachTopic(Tail(list),
                               [topicMap EXCEPT ![at].points = Unique(@ \o topic.points)])
                      ELSE ForEachTopic(Tail(list),
                               Append(topicMap, [key |-> TopicName(topic),
                                                 name |-> topic.name,
                                                 points |-> Unique(topic.points)]))

\* mergeTopics(topics): Array.from(topicMap.values())
MergeTopics(list) ==
    LET merged == ForEachTopic(list, <<>>)
    IN  [threw |-> merged.threw,
         topics |-> [i \in 1..Len(merged.topics) |->
                        [name |-> merged.topics[i].name,
                         points |-> merged.topics[i].points]]]

\* What parseTopicSegmentation hands on: a string of the response as a topic
\* without points, an object with its name, if that is truthy, and its points
ParsedTopics ==
    {[name |-> Text(chars), points |-> <<>>] : chars \in SeqsUpTo(NameChars, MaxNameLen)}
        \cup {[name |-> name, points |-> points] :
                name \in {Text(chars) : chars \in SeqsUpTo(NameChars, MaxNameLen) \ {<<>>}}
                             \cup {Number},
                points \in SeqsUpTo(Points, MaxPoints)}

NotMerged == [threw |-> FALSE, topics |-> <<>>]

\* combineSummaries: this.mergeTopics(chunkSummaries.flatMap(s => s.topics || []))
MergeTopicsCall ==
    /\ returned = "none"
    /\ returned' = "mergeTopics"
    /\ mergedTopics' = MergeTopics(inputTopics)
    /\ UNCHANGED <<now, inputTopics, inputQuotes, sanitizedQuotes, responseText, parseResult,
                   previousKeyPoints, answerKeyPoints, updatedKeyPoints, segments, chunks>>
    /\ UNCHANGED <<schedVars, hookVars, speechVars, summaryVars, renderVars>>

(***************************************************************************)
(* sanitizeQuotes (src/src/services/aiService.js) over the characters of   *)
(* a quote: a letter, a colon, a space, a double quote, a dash and a       *)
(* character that is none of these.                                        *)
(***************************************************************************)

MaxQuoteLen == 4
MaxQuotes == 1

Letters == {"a"}
QuoteChars == Letters \cup {":", " ", "\"", "-", "!"}

\* The length of the longest run of letters at the start of a text
RECURSIVE LeadingLetters(_)
LeadingLetters(chars) ==
    IF chars # <<>> /\ Head(chars) \in Letters THEN 1 + LeadingLetters(Tail(chars)) ELSE 0

RECURSIVE DropSpaces(_)
DropSpaces(chars) ==
    IF chars # <<>> /\ Head(chars) = " " THEN DropSpaces(Tail(chars)) ELSE chars

\* .replace(/^[A-Za-z]+:\s*/, '')
RemoveNameAtStart(chars) ==
    LET n == LeadingLetters(chars)
    IN  IF n >= 1 /\ Len(chars) > n /\ chars[n + 1] = ":"
        THEN DropSpaces(SubSeq(chars, n + 2, Len(chars)))
        ELSE chars

\* .replace(/^"([^"]*)"$/, '$1')
RemoveSurroundingQuotes(chars) ==
    IF /\ Len(chars) >= 2
       /\ chars[1] = "\"" /\ chars[Len(chars)] = "\""
       /\ \A i \in 2..(Len(chars) - 1) : chars[i] # "\""
    THEN SubSeq(chars, 2, Len(chars) - 1)
    ELSE chars

\* The dashes after which only letters and spaces follow, and at least one
NameDashes(chars) ==
    {d \in 1..(Len(chars) - 1) :
        /\ chars[d] = "-"
        /\ \A i \in (d + 1)..Len(chars) : chars[i] \in Letters \cup {" "}}

\* .replace(/\s*-\s*[A-Za-z\s]+\s*$/, ''): the match starts at the first of
\* the spaces before the dash
RemoveNameAtEnd(chars) ==
    IF NameDashes(chars) = {} THEN chars
    ELSE LET d == CHOOSE x \in NameDashes(chars) : TRUE
             start == CHOOSE i \in 1..d :
                          /\ \A j \in i..(d - 1) : chars[j] = " "
                          /\ i > 1 => chars[i - 1] # " "
         IN  SubSeq(chars, 1, start - 1)

\* quote => ...: '' for a quote that is not a string
SanitizeText(quote) ==
    IF quote.t # "Str" THEN <<>>
    ELSE TrimChars(RemoveNameAtEnd(RemoveSurroundingQuotes(RemoveNameAtStart(quote.s))))

\* sanitizeQuotes(quotes): quotes.map(...).filter(quote => quote.length > 0)
SanitizeTexts(list) ==
    LET mapped == [i \in 1..Len(list) |-> Text(SanitizeText(list[i]))]
    IN  SelectSeq(mapped, LAMBDA quote : Len(quote.s) > 0)

\* The elements of parsed.quotes: strings, and numbers
QuoteValues == {Text(chars) : chars \in SeqsUpTo(QuoteChars, MaxQuoteLen)} \cup {Number}

\* parseSummaryResponse: this.sanitizeQuotes(parsed.quotes)
SanitizeQuotesCall ==
    /\ returned = "none"
    /\ returned' = "sanitizeQuotes"
    /\ sanitizedQuotes' = SanitizeTexts(inputQuotes)
    /\ UNCHANGED <<now, inputTopics, mergedTopics, inputQuotes, responseText, parseResult,
                   previousKeyPoints, answerKeyPoints, updatedKeyPoints, segments, chunks>>
    /\ UNCHANGED <<schedVars, hookVars, speechVars, summaryVars, renderVars>>

TextIdle ==
    /\ inputTopics = <<>>
    /\ mergedTopics = NotMerged
    /\ inputQuotes = <<>>
    /\ sanitizedQuotes = <<>>

PureIdle ==
    /\ returned = "none"
    /\ responseText = NoText
    /\ parseResult = Threw
    /\ previousKeyPoints = <<>>
    /\ answerKeyPoints = <<>>
    /\ updatedKeyPoints = <<>>
    /\ segments = <<>>
    /\ chunks = <<>>

Init == SchedInit /\ HookInit /\ SpeechInit /\ SummaryIdle /\ RenderIdle /\ TextIdle /\ PureIdle

InitParse ==
    /\ SchedInit /\ HookInit /\ SpeechInit /\ SummaryIdle /\ RenderIdle /\ TextIdle
    /\ returned = "none"
    /\ responseText \in ResponseTexts
    /\ parseResult = Threw
    /\ previousKeyPoints = <<>> /\ answerKeyPoints = <<>> /\ updatedKeyPoints = <<>>
    /\ segments = <<>> /\ chunks = <<>>

InitIncremental ==
    /\ SchedInit /\ HookInit /\ SpeechInit /\ SummaryIdle /\ RenderIdle /\ TextIdle
    /\ returned = "none"
    /\ responseText = NoText /\ parseResult = Threw
    /\ previousKeyPoints \in SeqsUpTo(KeyPoints, MaxKeyPoints)
    /\ answerKeyPoints \in SeqsUpTo(KeyPoints, MaxKeyPoints)
    /\ updatedKeyPoints = <<>>
    /\ segments = <<>> /\ chunks = <<>>

InitChunk ==
    /\ SchedInit /\ HookInit /\ SpeechInit /\ SummaryIdle /\ RenderIdle /\ TextIdle
    /\ returned = "none"
    /\ responseText = NoText /\ parseResult = Threw
    /\ previousKeyPoints = <<>> /\ answerKeyPoints = <<>> /\ updatedKeyPoints = <<>>
    /\ segments \in StreamsUpTo(MaxStream)
    /\ chunks = <<>>

SpecParse == InitParse /\ [][Parse]_vars

SpecIncremental == InitIncremental /\ [][\E ok \in BOOLEAN : IncrementalUpdate(ok)]_vars

SpecChunk == InitChunk /\ [][Chunk]_vars

InitTopics ==
    /\ SchedInit /\ HookInit /\ SpeechInit /\ SummaryIdle /\ RenderIdle /\ PureIdle
    /\ inputTopics \in SeqsUpTo(ParsedTopics, MaxTopics)
    /\ mergedTopics = NotMerged
    /\ inputQuotes = <<>>
    /\ sanitizedQuotes = <<>>

SpecTopics == InitTopics /\ [][MergeTopicsCall]_vars

InitQuotes ==
    /\ SchedInit /\ HookInit /\ SpeechInit /\ SummaryIdle /\ RenderIdle /\ PureIdle
    /\ inputTopics = <<>>
    /\ mergedTopics = NotMerged
    /\ inputQuotes \in SeqsUpTo(QuoteValues, MaxQuotes)
    /\ sanitizedQuotes = <<>>

SpecQuotes == InitQuotes /\ [][SanitizeQuotesCall]_vars

InitSummary ==
    /\ SchedInit /\ HookInit /\ SpeechInit /\ PureIdle /\ RenderIdle /\ TextIdle
    /\ chunkResponses \in SeqsUpTo(Responses, MaxChunkSummaries)
    /\ handed = NoneHanded
    /\ sourceWords = 0

InitRender ==
    /\ SchedInit /\ HookInit /\ SpeechInit /\ SummaryIdle /\ PureIdle /\ TextIdle
    /\ exportSummary \in RenderedSummaries
    /\ exportText = <<>>

NextRender ==
    \/ HandleExport
    \/ \E includeMetadata \in BOOLEAN : EmailShare(includeMetadata)
    \/ CopyFullSummary

SpecRender == InitRender /\ [][NextRender]_vars

NextSummary ==
    \/ \E chunkFails \in BOOLEAN,
          consolidation \in {ConsolidationFailed} \cup {Consolidated(r) : r \in Responses} :
           AIGenerateSummary(chunkFails, consolidation)
    \/ \E failed \in BOOLEAN, response \in Responses :
           AIGenerateIncrementalSummary(failed, response)
    \/ \E text \in SummaryTexts : SummaryServiceGenerateSummary(text)

SpecSummary == InitSummary /\ [][NextSummary]_vars

NextSpeech ==
    \/ \E started \in BOOLEAN : StartListening(started)
    \/ \E finals \in SeqsUpTo(FinalResults, MaxFinals), interim \in Transcripts :
           HandleResult(finals, interim)
    \/ StopListening
    \/ PauseListening
    \/ ResumeListening
    \/ Finalize
    \/ SpeechTick

SpecSpeech == Init /\ [][NextSpeech]_vars

\* The owner's calls, the errors of the recognition and the timers they set
NextRecovery ==
    \/ \E started \in BOOLEAN : StartListening(started)
    \/ StopListening
    \/ StopListeningInactive
    \/ PauseListening
    \/ ResumeListening
    \/ SpeechCleanup
    \/ HandleCriticalError
    \/ HandleNetworkError
    \/ NetworkRetryFires
    \/ \E outcome \in {"started", "none", "threw"} : NetworkRetryRestarts(outcome)
    \/ HandleEnd
    \/ HandleRecoveryError
    \/ RestartFires

SpecRecovery == Init /\ [][NextRecovery]_vars


NextHook ==
    \/ HandleAIConfiguration
    \/ StartRecording
    \/ StopRecording
    \/ \E w \in 0..MaxWords : OnTranscriptUpdate(w)
    \/ \E w \in 0..MaxWords : OnSegmentComplete(w)
    \/ \E can \in BOOLEAN : AutoGenerateSummary(can)
    \/ RefreshSummary
    \/ ClearSummary
    \/ RequestSucceeds
    \/ RequestFails
    \/ Tick

SpecHook == Init /\ [][NextHook]_vars

\* The interval between two automatic summaries passes, once
IntervalTick ==
    /\ now < IntervalSeconds * 1000
    /\ now' = now + IntervalSeconds * 1000
    /\ UNCHANGED <<schedVars, hookVars, pureVars, speechVars, summaryVars, renderVars, textVars>>

\* The hook over one interval, when the request at the head of aiService's
\* queue settles
NextCycles ==
    \/ HandleAIConfiguration
    \/ StartRecording
    \/ StopRecording
    \/ \E w \in 0..MaxWords : OnTranscriptUpdate(w)
    \/ \E w \in 0..MaxWords : OnSegmentComplete(w)
    \/ \E can \in BOOLEAN : AutoGenerateSummary(can)
    \/ RefreshSummary
    \/ ClearSummary
    \/ RequestSucceeds
    \/ RequestFails
    \/ IntervalTick

SpecHookLive == Init /\ [][NextCycles]_vars /\ WF_vars(RequestSucceeds \/ RequestFails)


\* The scheduler as its clients drive it: queueRequest only.
Next ==
    \/ QueueRequest
    \/ \E l \in LoopIds : ThunkResolve(l)
    \/ \E l \in LoopIds, permanent \in BOOLEAN : ThunkReject(l, permanent)
    \/ \E l \in LoopIds : BackoffWake(l)
    \/ \E l \in LoopIds : SleepWake(l)
    \/ Tick

Spec == Init /\ [][Next]_vars

\* The scheduler with reset() and cleanup() called at any moment.
NextReset ==
    \/ QueueRequest
    \/ \E l \in LoopIds : ThunkResolve(l)
    \/ \E l \in LoopIds, permanent \in BOOLEAN : ThunkReject(l, permanent)
    \/ \E l \in LoopIds : BackoffWake(l)
    \/ \E l \in LoopIds : SleepWake(l)
    \/ Tick
    \/ Reset
    \/ Cleanup

SpecReset == Init /\ [][NextReset]_vars

\* The scheduler when every thunk settles and every timer fires: a promise that
\* is awaited is settled in the end, and setTimeout calls back once its delay
\* has passed.
Fairness ==
    /\ \A l \in LoopIds :
           WF_vars(ThunkResolve(l) \/ \E permanent \in BOOLEAN : ThunkReject(l, permanent))
    /\ \A l \in LoopIds : WF_vars(BackoffWake(l))
    /\ \A l \in LoopIds : WF_vars(SleepWake(l))
    /\ WF_vars(TimerTick)

NextLive ==
    \/ QueueRequest
    \/ \E l \in LoopIds : ThunkResolve(l)
    \/ \E l \in LoopIds, permanent \in BOOLEAN : ThunkReject(l, permanent)
    \/ \E l \in LoopIds : BackoffWake(l)
    \/ \E l \in LoopIds : SleepWake(l)
    \/ TimerTick

SpecLive == Init /\ [][NextLive]_vars /\ Fairness

NextLiveReset ==
    \/ NextLive
    \/ Reset
    \/ Cleanup

SpecLiveReset == Init /\ [][NextLiveReset]_vars /\ Fairness

\* The scheduler when a thunk need not settle: time passes, for longer than a
\* minute, the timers of sleep() fire, and nothing else is bound to happen
TimerFairness ==
    /\ \A l \in LoopIds : WF_vars(BackoffWake(l))
    /\ \A l \in LoopIds : WF_vars(SleepWake(l))
    /\ WF_vars(TimerTick)
    /\ WF_vars(Tick)

NextTimers ==
    \/ NextLive
    \/ Tick

SpecTimers == Init /\ [][NextTimers]_vars /\ TimerFairness

----------------------------------------------------------------------------
(* Properties *)

\* C1: no sliding 60-second window contains more dequeued requests than
\* requestsPerMinute: with limit L, the (k+L)-th dequeue comes no earlier than
\* 60 s after the k-th.
C1_RateCompliance ==
    \A k \in 1..Len(dequeueLog) :
        k + RequestsPerMinute <= Len(dequeueLog)
            => dequeueLog[k + RequestsPerMinute] - dequeueLog[k] >= Window

\* C3: at most one processQueue loop is active and at most one request thunk is
\* executing (or between two attempts) at any moment, whatever reset() and
\* cleanup() calls are interleaved.
C3_SingleLoop ==
    /\ Cardinality(ActiveLoops) <= 1
    /\ Cardinality(Executing) <= 1

\* C4: a thunk is invoked at most 1 + maxRetries times; a rejected promise carries
\* the error of the last, (1 + maxRetries)-th, attempt; a resolved promise carries
\* the value of the attempt that succeeded, and the thunk is not invoked after it.
C4_RetryPolicy ==
    \A r \in ReqIds :
        /\ calls[r] <= MaxRetries + 1
        /\ promise[r].state = "rejected"
              => calls[r] = MaxRetries + 1 /\ promise[r].val = MaxRetries + 1
        /\ promise[r].state = "resolved" => promise[r].val = calls[r]

C4_Witness ==
    /\ \E r \in ReqIds : promise[r].state = "rejected"
    /\ \E r \in ReqIds : promise[r].state = "resolved" /\ calls[r] > 1

\* C2: at most one summary generation cycle is in flight at any moment; a
\* request to generate that arrives while a cycle is generating starts no
\* second cycle.
C2_SingleCycle == Cardinality(Running) <= 1

\* The step in which the request of a cycle fails for good and the cycle with it
\* (a failed consolidation request is absorbed by combineSummaries)
CycleFails ==
    /\ RequestFails
    /\ cycles[Head(svcQueue)].phase # "consolidate"

CountedSummarized ==
    LET finals == FinalSegments(transcript)
    IN  {finals[i].id : i \in 1..Min(Len(finals), Len(lastSegs))}

\* C8: a final segment is left out of the next cycle's new-segment slice only
\* if it was in the input of a cycle that succeeded.
C8_SummarizedOnlyOnSuccess == CountedSummarized \subseteq okInputs

\* Number of words of the segments' texts
WordCount(segs) == SumSeq([i \in 1..Len(segs) |-> segs[i].words])

\* The trigger condition as the specification states it
TriggerCondition ==
    LET finals == FinalSegments(transcript)
    IN  /\ Len(finals) >= MinSegments
        /\ WordCount(finals) >= MinWords
        /\ \/ currentSummary = NoSummary
           \/ now - currentSummary.generatedAt >= IntervalSeconds * 1000

\* C9: a call of autoGenerateSummary made when the trigger condition (enough
\* final segments AND enough words AND (no summary OR the interval elapsed))
\* does not hold starts nothing and changes no state.
C9_AutoTrigger ==
    [][((\E can \in BOOLEAN : AutoGenerateSummary(can)) /\ ~TriggerCondition)
          => UNCHANGED vars]_vars

ListFields == Fields \ {"content"}

\* C5: for any string, parseSummaryResponse returns without throwing, and what
\* it returns has a string as content and arrays as keyPoints, decisions,
\* actionItems, quotes and topics.
C5_ParseTotal ==
    returned = "parseSummaryResponse" =>
        /\ ~parseResult.threw
        /\ parseResult.content.t = "string"
        /\ \A k \in ListFields : parseResult[k].t = "array"

\* The answer is the JSON text null: JSON.parse succeeds, reading null.content
\* throws, and the parser has returned the fallback summary of the text
C5_Witness ==
    /\ returned = "parseSummaryResponse"
    /\ ~responseText.json.threw
    /\ responseText.json.v = Null
    /\ parseResult = CreateFallbackSummary(responseText)
    /\ parseResult.content = Str(1)

\* C6: the key points of an incremental update contain, compared by their
\* normalized texts and as long as the list cap is not reached, every key
\* point of the previous summary.
C6_KeyPointsKept ==
    (returned = "generateIncrementalSummary" /\ Len(updatedKeyPoints) < KeyPointsCap) =>
        Normalized(previousKeyPoints) \subseteq Normalized(updatedKeyPoints)

ChunkDuration(chunk) == IF chunk.segments = <<>> THEN 0 ELSE chunk.endTime - chunk.startTime

\* The chunk is one segment whose own text is longer than the size cap
SingleOversized(chunk) ==
    /\ Len(chunk.segments) = 1
    /\ TextLength(segments[chunk.segments[1]].text) > MaxChunkSize

\* C10: every chunk that createTranscriptChunks emits lasts at most the target
\* duration or is at most the size cap long, unless it is a single segment
\* whose own text exceeds the cap.
C10_ChunkBound ==
    \A i \in 1..Len(chunks) :
        \/ ChunkDuration(chunks[i]) <= TargetDuration
        \/ TextLength(chunks[i].text) <= MaxChunkSize
        \/ SingleOversized(chunks[i])

\* The words of a text: its non-empty pieces
WordsOf(text) == SelectSeq(text, LAMBDA w : w > 0)

\* C11: every emitted chunk after the first begins with the last overlapWords
\* words of the text of the chunk before it, whenever that text has at least
\* overlapWords words.
C11_OverlapPrefix ==
    \A i \in 2..Len(chunks) :
        LET before == WordsOf(chunks[i - 1].text)
            words == WordsOf(chunks[i].text)
        IN  Len(before) >= OverlapWords =>
                /\ Len(words) >= OverlapWords
                /\ SubSeq(words, 1, OverlapWords) = LastPieces(before, OverlapWords)

\* C12: finalizing twice in a row yields one final segment: a call that runs
\* finalizeCurrentSegment right after another one adds no segment and does
\* not invoke the segment-complete callback.
C12_FinalizeOnce ==
    [][(finalizersInARow >= 1 /\ finalizersInARow' = finalizersInARow + 1) =>
          /\ transcriptSegments' = transcriptSegments
          /\ segmentCompleteCalls' = segmentCompleteCalls]_vars

\* An interim text has been finalized into a segment at this instant, and
\* finalizeCurrentSegment has run a second time since
C12_Witness ==
    /\ finalizersInARow = 2
    /\ transcriptSegments # <<>>
    /\ transcriptSegments[Len(transcriptSegments)].confidence = ManualConfidence
    /\ transcriptSegments[Len(transcriptSegments)].timestamp = now
    /\ segmentCompleteCalls = transcriptSegments
    /\ currentTranscript = ""

\* C13: every summary handed to a caller has a content of at most 200 words,
\* and when the text it was made from had more, the content is the first 200
\* words of it followed by an ellipsis.
C13_ContentClamp ==
    (returned # "none" /\ ~handed.threw) =>
        /\ handed.content.n <= WordLimit
        /\ sourceWords > WordLimit => handed.content = Ellipsis(WordLimit)

\* Request r begins executing in this step: its thunk is invoked the first time
Begins(r) == calls[r] = 0 /\ calls'[r] = 1

\* Request r is being executed: its thunk runs or waits for its next attempt
InProgress(r, lp) ==
    \E l \in LoopIds : lp[l].req = r /\ lp[l].pc \in {"executing", "backoff"}

\* C14: requests begin executing in the order of their submission, and when a
\* request begins, every request submitted before it has finished all its
\* attempts.
C14_SubmissionOrder ==
    [][\A r \in ReqIds :
          Begins(r) =>
              /\ \A later \in ReqIds : later > r => calls[later] = 0
              /\ \A earlier \in ReqIds :
                     earlier < r =>
                         /\ \A i \in 1..Len(requestQueue') : requestQueue'[i] # earlier
                         /\ ~InProgress(earlier, loops')]_vars

Settled(r) == promise[r].state \in {"resolved", "rejected"}

\* C15: when every thunk settles, every promise that queueRequest returned is
\* resolved or rejected in the end, and isProcessing is false again once the
\* queue has drained.
C15_PromisesSettle ==
    /\ \A r \in ReqIds : (promise[r].state = "pending") ~> Settled(r)
    /\ isProcessing ~> (requestQueue = <<>> /\ ~isProcessing)

\* C16: a request whose thunk has failed with a permanent error is not
\* retried: the thunk is not invoked again, no backoff follows, and the
\* promise is rejected at once.
C16_PermanentNotRetried ==
    \A r \in ReqIds :
        permanentAt[r] > 0 =>
            /\ permanentAt[r] = 1 /\ calls[r] = 1
            /\ promise[r].state = "rejected"
            /\ ~InProgress(r, loops)

\* Cycle c ends in this step: the hook resumes after its await
Ends(c) == cycles[c].kind # "none" /\ cycles'[c].kind = "none"

\* C17: when the summary was cleared while a generation cycle was in flight,
\* the result of that cycle is discarded: it does not become the current
\* summary, and its segments are not added to the summarized ones.
C17_ClearedResultDiscarded ==
    [][\A c \in CycleIds :
          (cycles[c].cleared /\ Ends(c)) =>
              /\ currentSummary' = currentSummary
              /\ lastSegs' = lastSegs]_vars

\* C18: the step that ends a failed generation cycle, fresh or incremental,
\* sets the error state of the hook and keeps the current summary.
C18_FailureSurfaced ==
    [][CycleFails => (hookError' /\ currentSummary' = currentSummary)]_vars

\* Words of the contents of the chunk summaries taken together
ChunkContentWords ==
    SumSeq([i \in 1..Len(chunkResponses) |-> Min(chunkResponses[i].words, WordLimit)])

\* Items of the key point lists of the chunk summaries
ChunkKeyPoints == UNION {Range(chunkResponses[i].keyPoints) : i \in 1..Len(chunkResponses)}

\* C19: when every chunk is summarized and the consolidation request fails,
\* generateSummary does not fail: it hands out the contents of the chunk
\* summaries joined and clamped to 200 words, and their lists merged.
C19_ConsolidationFallback ==
    [][(Len(chunkResponses) > 1 /\ AIGenerateSummary(FALSE, ConsolidationFailed)) =>
          /\ ~handed'.threw
          /\ handed'.content.t = "string"
          /\ handed'.content.n = Min(ChunkContentWords, WordLimit)
          /\ ChunkContentWords > WordLimit => handed'.content = Ellipsis(WordLimit)
          /\ Normalized(handed'.keyPoints) \subseteq {Normalize(item) : item \in ChunkKeyPoints}
          /\ Cardinality(ChunkKeyPoints) <= KeyPointsCap =>
                 Normalized(handed'.keyPoints) = {Normalize(item) : item \in ChunkKeyPoints}
          /\ Cardinality(ChunkKeyPoints) > KeyPointsCap =>
                 Len(handed'.keyPoints) = KeyPointsCap]_vars

\* Two chunks were summarized in a word each, the consolidation request
\* failed, and the summary handed out has the two words and both key points
C19_Witness ==
    /\ returned = "AIService.generateSummary"
    /\ Len(chunkResponses) = 2
    /\ ~handed.threw
    /\ sourceWords = 2
    /\ handed.content = Str(2)
    /\ Len(handed.keyPoints) = 2

\* The items of a list that are the first of their normalized text, in order
RECURSIVE FirstSeen(_)
FirstSeen(list) ==
    IF list = <<>> THEN <<>>
    ELSE LET before == FirstSeen(SubSeq(list, 1, Len(list) - 1))
             item == list[Len(list)]
         IN  IF Normalize(item) \in Normalized(before) THEN before
             ELSE Append(before, item)

\* C20: when several chunk summaries are merged, a list of the result holds
\* the items of the chunk summaries once each under case-insensitive, trimmed
\* comparison, in the casing and the order in which they are first seen.
C20_MergeByText ==
    [][(Len(chunkResponses) > 1 /\ AIGenerateSummary(FALSE, ConsolidationFailed)) =>
          handed'.keyPoints =
              Take(FirstSeen(FlatMap([i \in 1..Len(chunkResponses) |->
                                         ProcessChunk(chunkResponses[i])])),
                   KeyPointsCap)]_vars

\* A summary is made from more than one chunk, or by an incremental update
MergeOrUpdate ==
    \/ /\ Len(chunkResponses) > 1
       /\ \E consolidation \in {ConsolidationFailed} \cup {Consolidated(r) : r \in Responses} :
              AIGenerateSummary(FALSE, consolidation)
    \/ \E response \in Responses : AIGenerateIncrementalSummary(FALSE, response)

\* C21: a summary made from more than one chunk or by an incremental update
\* has at most 10 key points, whether the consolidation request succeeds or
\* the fallback merges the lists.
C21_ListCaps == [][MergeOrUpdate => Len(handed'.keyPoints) <= KeyPointsCap]_vars

\* The segments of useTranscription's list that are not final
Interims(list) == SelectSeq(list, LAMBDA d : ~d.isFinal)

\* A call finalizes the utterance in progress: a final segment is stored and
\* no interim text is left
Finalizes ==
    /\ Len(transcriptSegments') > Len(transcriptSegments)
    /\ currentTranscript' = ""

\* C22: the segment list of a session holds at most one segment that is not
\* final, and once an utterance is finalized its interim segment is no longer
\* in the list.
C22_InterimReplaced ==
    [][/\ Len(Interims(displaySegments')) <= 1
       /\ Finalizes => Interims(displaySegments') = <<>>]_vars

\* The first request was dequeued at time 0 and the first call of its thunk
\* has not settled since
FirstCallPending ==
    /\ dequeueLog = <<0>>
    /\ \E l \in LoopIds : loops[l].pc = "executing" /\ loops[l].attempt = 0

\* C23: a generation call has a bounded wait: a thunk that does not settle is
\* given up as a failed attempt in the end (the retry policy takes over and
\* the requests queued behind it get their turn).
C23_BoundedWait == FirstCallPending ~> ~FirstCallPending

\* C24: a summary made by an incremental update has isIncremental = true and
\* previousSummaryId equal to the id of the summary it was derived from; a
\* summary made when no previous summary exists has isIncremental = false.
C24_PredecessorLink ==
    [][/\ (\E response \in Responses : AIGenerateIncrementalSummary(FALSE, response))
           => /\ handed'.isIncremental = Bool(TRUE)
              /\ handed'.previousSummaryId = Num(handed.id)
              /\ handed'.id # handed.id
       /\ (handed'.id # 0 /\ returned' = "AIService.generateSummary")
           => handed'.isIncremental = Bool(FALSE)]_vars

\* C25: a malformed recognition event is clamped or ignored, never stored as
\* it is: every stored segment has a confidence within [0, 1] (in tenths,
\* 0..10) and a text that is not empty.
C25_StoredSegmentsValid ==
    \A i \in 1..Len(transcriptSegments) :
        /\ transcriptSegments[i].text # ""
        /\ transcriptSegments[i].confidence \in 0..10

\* pauseListening() has stopped the recognition and no event has arrived
\* since: the interim text of the utterance in progress is stored as a final
\* segment, the last of the list
PendingFinalized ==
    /\ isPaused
    /\ finalizersInARow > 0
    /\ transcriptSegments # <<>>
    /\ transcriptSegments[Len(transcriptSegments)].confidence = ManualConfidence
    /\ transcriptSegments[Len(transcriptSegments)].timestamp = now

\* C26: an utterance yields at most one final segment whatever the order of
\* the events: when pauseListening (or stopListening) has stored the pending
\* interim text as a final segment, the final result of that utterance, which
\* the stopped recognition delivers after it, adds no second final segment.
C26_OneFinalPerUtterance ==
    [][PendingFinalized => Len(transcriptSegments') <= Len(transcriptSegments)]_vars

\* The text has the topic t: its name, followed by its points
HasTopic(text, topics, t) ==
    \E k \in 1..Len(text) :
        /\ text[k] = Line("topic", "topics", t, 0)
        /\ \A j \in 1..Len(topics[t].points) :
               /\ k + j <= Len(text)
               /\ text[k + j] = Line("point", "topics", t, topics[t].points[j])

\* The text has everything of the summary s
RendersAll(text, s) ==
    /\ Line("content", "content", 0, 0) \in Range(text)
    /\ \A i \in 1..Len(s.keyPoints) : Line("bullet", "keyPoints", 0, s.keyPoints[i]) \in Range(text)
    /\ \A i \in 1..Len(s.decisions) : Line("bullet", "decisions", 0, s.decisions[i]) \in Range(text)
    /\ \A i \in 1..Len(s.actionItems) :
           Line("bullet", "actionItems", 0, s.actionItems[i]) \in Range(text)
    /\ \A i \in 1..Len(s.quotes) : Line("quote", "quotes", 0, s.quotes[i]) \in Range(text)
    /\ \A t \in 1..Len(s.topics) : HasTopic(text, s.topics, t)

\* C27: every plain-text rendering of a summary for export or sharing has the
\* narrative content, the key points, decisions and action items as bullets,
\* the quotes, and each topic name followed by its points.
C27_RenderingComplete == (returned # "none") => RendersAll(exportText, exportSummary)

\* The loop l finds the window full in this step and goes to sleep
GoesToSleep(l) == loops'[l].pc = "sleeping" /\ loops'[l] # loops[l]

\* The loop l re-checks the window in this step, its sleep over
Rechecks(l) == loops[l].pc = "sleeping" /\ loops'[l] # loops[l]

C29_StartRecorded ==
    [][Len(dequeueLog') > Len(dequeueLog)
           => \E i \in 1..Len(requestHistory') : requestHistory'[i] = now]_vars

\* The loop l starts the backoff sleep before a retry in this step
StartsBackoff(l) == loops[l].pc = "executing" /\ loops'[l].pc = "backoff"

\* C30: the delay before retry n (attempt index n - 1) is
\* min(maxDelay, baseDelay * 2^(n-1)): 1000, 2000 and 4000 ms with the
\* defaults, and no retry delay is longer than maxDelay (10000 ms), however
\* many retries are made.
C30_BackoffDelay ==
    [][/\ \A l \in LoopIds :
              StartsBackoff(l) =>
                  LET delay == loops'[l].wakeAt - now
                      n == loops[l].attempt + 1
                  IN  /\ delay = IF BaseDelay * 2^(n - 1) < MaxDelay
                                 THEN BaseDelay * 2^(n - 1) ELSE MaxDelay
                      /\ n = 1 => delay = 1000
                      /\ n = 2 => delay = 2000
                      /\ n = 3 => delay = 4000
                      /\ delay <= 10000
       /\ \A attempt \in 0..MaxAttempts :
              /\ RetryDelay(attempt) <= MaxDelay
              /\ RetryDelay(attempt) \in {BaseDelay * 2^attempt, MaxDelay}]_vars

\* The third retry of a request is awaited
C30_Witness ==
    \E l \in LoopIds :
        /\ loops[l].pc = "backoff"
        /\ loops[l].attempt = MaxRetries - 1
        /\ loops[l].wakeAt > now

\* The text of the input segment k alone is longer than the size cap
Oversized(k) == TextLength(segments[k].text) - 1 > MaxChunkSize

\* C31: a single segment whose text alone exceeds the size cap is emitted as
\* a chunk of its own, which holds that segment only (stated for the streams
\* whose segments all have a text).
C31_OversizedAlone ==
    (returned = "createTranscriptChunks" /\ \A j \in 1..Len(segments) : segments[j].text # <<0>>) =>
        \A k \in 1..Len(segments) :
            Oversized(k) => \E i \in 1..Len(chunks) : chunks[i].segments = <<k>>

\* The segments of the emitted chunks, chunk after chunk
EmittedSegments == Concat([i \in 1..Len(chunks) |-> chunks[i].segments])

\* C32: the chunks are emitted in append order and partition the input: the
\* segment lists of the emitted chunks, concatenated in order, are the input
\* segment sequence, with no segment lost, duplicated or reordered.
C32_ChunksPartition ==
    (returned = "createTranscriptChunks") =>
        EmittedSegments = [k \in 1..Len(segments) |-> k]

\* C33: every generation cycle that enters Generating returns to Idle, on
\* success and on failure alike, provided its request settles: the cycle is
\* over, its progress and countdown timers are stopped and isGenerating is
\* false again.
C33_ReturnsToIdle ==
    \A c \in CycleIds :
        (cycles[c].kind # "none")
            ~> (cycles[c].kind = "none" /\ ~cycles[c].timers /\ ~isGenerating)

\* A cycle has failed and the hook is idle again, its error set
C33_Witness ==
    /\ nextCycle > 0
    /\ Running = {}
    /\ hookError
    /\ ~isGenerating


\* The normalized name of the i-th topic handed to mergeTopics, and whether it
\* is the first topic of that name
NormalizedName(i) == TrimChars(ToLowerCase(inputTopics[i].name.s))

FirstOfName(i) == \A j \in 1..(i - 1) : NormalizedName(j) # NormalizedName(i)

\* C34: mergeTopics returns one topic for every distinct lower-cased, trimmed
\* name of its input, in the order in which the names are first seen and with
\* the name as first seen, and the points of a returned topic are the points
\* of all input topics of that name, each once.
C34_MergeByName ==
    (returned = "mergeTopics") =>
        /\ ~mergedTopics.threw
        /\ LET firsts == SelectSeq([i \in 1..Len(inputTopics) |-> i], FirstOfName)
               merged == mergedTopics.topics
           IN  /\ Len(merged) = Len(firsts)
               /\ \A k \in 1..Len(firsts) :
                     /\ merged[k].name = inputTopics[firsts[k]].name
                     /\ Range(merged[k].points) =
                            UNION {Range(inputTopics[j].points) :
                                     j \in {i \in 1..Len(inputTopics) :
                                              NormalizedName(i) = NormalizedName(firsts[k])}}
                     /\ \A a, b \in 1..Len(merged[k].points) :
                            a # b => merged[k].points[a] # merged[k].points[b]

\* A text that begins with letters and a colon, and a text that ends with a
\* dash, letters and spaces
BeginsWithName(chars) ==
    \E n \in 1..(Len(chars) - 1) :
        /\ \A i \in 1..n : chars[i] \in Letters
        /\ chars[n + 1] = ":"

EndsWithName(chars) ==
    \E d \in 1..(Len(chars) - 1) :
        /\ chars[d] = "-"
        /\ \A i \in (d + 1)..Len(chars) : chars[i] \in Letters \cup {" "}

\* C35: no quote that sanitizeQuotes returns begins with a "Name:" prefix or
\* ends with a "- Name" suffix, and sanitizeQuotes returns its own output
\* unchanged.
C35_SanitizeIdempotent ==
    (returned = "sanitizeQuotes") =>
        /\ \A i \in 1..Len(sanitizedQuotes) :
              /\ ~BeginsWithName(sanitizedQuotes[i].s)
              /\ ~EndsWithName(sanitizedQuotes[i].s)
        /\ SanitizeTexts(sanitizedQuotes) = sanitizedQuotes

\* C36: every chunk that createTranscriptChunks returns holds at least one
\* segment and has an end time; no chunk made of the overlap text of the chunk
\* before it alone is returned when the last segment closes a chunk.  Here for
\* streams whose segment texts are not empty.
C36_ChunksHaveSegments ==
    (returned = "createTranscriptChunks" /\ \A j \in 1..Len(segments) : segments[j].text # <<0>>) =>
        \A i \in 1..Len(chunks) :
            /\ chunks[i].segments # <<>>
            /\ chunks[i].endTime # -1

\* C39: every element of the quotes that parseSummaryResponse returns, from
\* the JSON of the response or from the lines of its text, is a string that is
\* not empty.
C39_QuotesNonEmpty ==
    (returned = "parseSummaryResponse" /\ ~parseResult.threw) =>
        /\ parseResult.quotes.t = "array"
        /\ \A i \in 1..Len(parseResult.quotes.e) : parseResult.quotes.e[i] = "text"

\* C38: a promise that queueRequest returned before reset() or cleanup() is
\* called is resolved or rejected in the end, also when the request was
\* waiting in the queue at the moment of the call.
C38_SettledAcrossReset ==
    \A r \in ReqIds : (resets = 0 /\ promise[r].state = "pending") ~> Settled(r)

\* C37: after stopListening() or cleanup(), also after a stopListening() that
\* found a retry for a network error pending, and until startListening() or
\* resumeListening() is called, isListening is false and no timer has called
\* recognition.start().
C37_StoppedStaysStopped ==
    stopRequested => (~isListening /\ ~timerStarted)
====
